---- MODULE Spec2Model ----
(***************************************************************************)
(* Session lifecycle of Go2WebRTCConnection (go2_webrtc_driver) and the    *)
(* reconnection supervisors built on top of it:                            *)
(*   "monitor"  tmp/fault_investigation/sensor_monitor.py                  *)
(*   "cli"      tmp/fault_investigation/sensor_monitor_cli.py              *)
(*   "lidar2"   tmp/lidar2/app.py                                          *)
(*   "lidar"    tmp/lidar/app.py                                           *)
(* One supervisor runs per behaviour; it owns one Go2WebRTCConnection at a *)
(* time.  The transport engine (peer object, ICE, data channel) and the    *)
(* robot are the environment.  Time is counted in seconds by saturating    *)
(* clocks; every clock is only ever compared with a program constant.      *)
(***************************************************************************)
EXTENDS Integers, Sequences, FiniteSets, TLC

\* ---------------------------------------------------------------- bounds
\* failures a supervisor may go through before the model stops following it
MaxRetries == 2
\* unclosed peers of abandoned attempts the model keeps counting
MaxLeaked == 1
\* failed attempts the retry loop by itself is followed through
MaxFailures == 5

\* ------------------------------------------------------ program constants
FastThreshold == 10
StallLimit == 10
KeepaliveInterval == 20
CliKeepaliveInterval == 8
MaxDelay == 30
LidarTick == 5
NoStamp == 0 - 1

Variants == {"monitor", "cli", "lidar2", "lidar"}
PcStates == {"new", "connecting", "connected", "disconnected", "failed", "closed"}
BadStates == {"closed", "failed", "disconnected"}
Answers == {"none", "reject", "malformed", "ok"}
\* how long a failed attempt lasted, in seconds
Durations == {2, 3, 20}

VARIABLES
    variant,                    \* which supervisor program runs
    sup,                        \* position of the supervisor coroutine
    retry_count,
    consecutive_fast_failures,
    reconnect_delay,
    sleepLeft,                  \* remaining 1 s increments of the backoff sleep
    connection_error_detected,  \* connection_error_detected["value"]
    shutdown_requested,         \* _shutdown_requested / interrupt / test deadline
    failure,                    \* the exception the except-branch is handling
    history,                    \* the failed attempts in order: how long each
                                \* lasted and whether its session had come alive
    elapsed,                    \* time.time() - connection_start, saturating
    msgAge,                     \* now - last sensor message, NoStamp if None
    sportAge,                   \* cli only: now - last_sportmode_time
    kaAge,                      \* now - last_keepalive, saturating
    pc,                         \* conn.pc: "None" or "peer"
    isConnected,                \* conn.isConnected
    connectionState,            \* pc.connectionState of the current peer
    iceConnectionState,         \* pc.iceConnectionState of the current peer
    evPending,                  \* a connectionstatechange handler is scheduled
    remoteDescription,          \* pc.remoteDescription is set
    connStage,                  \* position of the conn.connect() task
    answer,                     \* signaling answer of the current attempt
    exc,                        \* what conn.connect() raised, "none" if nothing
    data_channel_opened,        \* datachannel.data_channel_opened
    readyState,                 \* datachannel.channel.readyState
    leaked,                     \* peers of earlier attempts never closed
    rewriter,                   \* which copy of _rewrite_sdp_to_legacy is applied
    sdp,                        \* the SDP text handed to the rewrite
    rewritten,                  \* results of the rewrite applied again and again
    sentSdp,                    \* the offer SDP handed to the original send, << >> if none
    sn,                         \* conn.sn, the serial number given to the constructor
    ip,                         \* conn.ip, given to the constructor or discovered
    discovered_ip_sn_addresses, \* what discover_ip_sn() returned last
    attempt,                    \* sit-stand: the attempt of the for loop, 0 before it
    last_error,                 \* sit-stand: last_error, "None" or the exception caught
    published,                  \* sit-stand: requests sent to the robot after connecting
    exit_code,                  \* sit-stand: "running", or the status the process ended with
    pending,                    \* multiplexer: Pending Requests, correlation id -> record
    calls,                      \* multiplexer: what each publishRequest call has come to
    removals,                   \* multiplexer: times the Pending Request of an id was removed
    nextId,                     \* multiplexer: the last correlation id handed out
    inbound,                    \* multiplexer: messages of the robot not yet read
    responded,                  \* multiplexer: ids the robot has answered
    topicSeq,                   \* multiplexer: topic messages the robot has sent
    subscriptions,              \* multiplexer: topic -> callbacks, in subscription order
    invoked,                    \* multiplexer: callback -> the messages it was invoked with
    loopNow,                    \* event loop: the time
    ready,                      \* event loop: callbacks scheduled and not yet run
    busyLeft,                   \* event loop: time the running callback still holds the thread
    tickDue,                    \* event loop: when the supervisor's sleep ends
    tickLate,                   \* event loop: the longest a tick ran after it was due
    deliveryLate,               \* event loop: the longest a scheduled callback waited
    abandoned,                  \* conn.connect() tasks of attempts given up, still running
    held,                       \* cross-thread locks: lock -> the thread that holds it
    at,                         \* cross-thread locks: thread -> the section and statement it is at
    latest_frame,               \* video_stream: a frame has been stored
    aiortc_version,             \* aiortc.__version__ as <<major, minor, patch>>
    X509_DIGEST_ALGORITHMS,     \* aiortc.rtcdtlstransport.X509_DIGEST_ALGORITHMS
    imported,                   \* the modules imported so far, in import order
    aioice_Connection,          \* the class aioice.Connection names
    engine_Connection,          \* the class the name Connection inside aiortc names
    engine_lookup,              \* how aiortc finds the class when it creates an object
    created,                    \* the credentials of the ICE connections created
    connection_state,           \* memory_store['connection_state']
    lowstate,                   \* the snapshots memory_store['lowstate'] holds
    sportmodestate,             \* the snapshots memory_store['sportmodestate'] holds
    errors,                     \* memory_store['errors']
    error_count,                \* memory_store['error_count']
    samples,                    \* bandwidth_data['samples']
    grs,                        \* get_robot_state: where the call is
    state_received,             \* get_robot_state: the Event
    body_height,                \* get_robot_state: the height the callback read
    found,                      \* the subscriber lists as the call found them
    ncalls                      \* calls of get_robot_state made

supVars == <<variant, history, sup, retry_count, consecutive_fast_failures,
             reconnect_delay, sleepLeft, connection_error_detected, shutdown_requested,
             failure>>
clockVars == <<elapsed, msgAge, sportAge, kaAge>>
connVars == <<pc, isConnected, connectionState, iceConnectionState, evPending,
              remoteDescription>>
taskVars == <<connStage, answer, exc>>
chanVars == <<data_channel_opened, readyState>>
histVars == <<leaked>>
textVars == <<rewriter, sdp, rewritten, sentSdp>>
addrVars == <<sn, ip, discovered_ip_sn_addresses>>
appVars == <<attempt, last_error, published, exit_code>>
muxVars == <<pending, calls, removals, nextId, inbound, responded, topicSeq,
             subscriptions, invoked>>
orphanVars == <<abandoned>>
lockVars == <<held, at, latest_frame>>
importVars == <<aiortc_version, X509_DIGEST_ALGORITHMS, imported, aioice_Connection,
                engine_Connection, engine_lookup, created>>
storeVars == <<connection_state, lowstate, sportmodestate, errors, error_count, samples>>
callVars == <<grs, state_received, body_height, found, ncalls>>
loopVars == <<loopNow, ready, busyLeft, tickDue, tickLate, deliveryLate>>
vars == <<supVars, clockVars, connVars, taskVars, chanVars, histVars, textVars, addrVars,
          appVars, muxVars, loopVars, orphanVars, lockVars, importVars, storeVars, callVars>>

Min(a, b) == IF a < b THEN a ELSE b
Max(a, b) == IF a > b THEN a ELSE b

\* a clock that stops counting once it has passed every constant it is compared with
Advance(c, d, cap) == IF c = NoStamp THEN NoStamp ELSE Min(c + d, cap)

\* ------------------------------------------------------------------ Init
InitSession ==
    /\ variant \in Variants
    /\ sup = "start"
    /\ retry_count = 0
    /\ consecutive_fast_failures = 0
    /\ reconnect_delay = 0
    /\ sleepLeft = 0
    /\ connection_error_detected = FALSE
    /\ shutdown_requested = FALSE
    /\ failure = "none"
    /\ history = << >>
    /\ elapsed = 0
    /\ msgAge = NoStamp
    /\ sportAge = NoStamp
    /\ kaAge = 0
    /\ pc = "None"
    /\ isConnected = FALSE
    /\ connectionState = "new"
    /\ iceConnectionState = "new"
    /\ evPending = FALSE
    /\ remoteDescription = FALSE
    /\ connStage = "idle"
    /\ answer = "unset"
    /\ exc = "none"
    /\ data_channel_opened = FALSE
    /\ readyState = "connecting"
    /\ leaked = 0

\* no SDP text has been handed to a rewrite
InitText ==
    /\ rewriter = "sensor_monitor"
    /\ sdp = << >>
    /\ rewritten = << >>
    /\ sentSdp = << >>

\* the applications construct the connection with the robot's address
InitAddress ==
    /\ sn = "None"
    /\ ip = "A1"
    /\ discovered_ip_sn_addresses = << >>

\* the one-shot application has not started
InitApp ==
    /\ attempt = 0
    /\ last_error = "None"
    /\ published = 0
    /\ exit_code = "running"

MaxRequests == 2       \* publishRequest calls
MaxMessages == 2       \* topic messages the robot sends
RequestTimeout == 2    \* ticks until the deadline of a request

Topics == {"T1", "T2"}
Callbacks == {"cb1", "cb2"}
Ids == 1..MaxRequests

\* the multiplexer of a channel that has just opened
InitMux ==
    /\ pending = << >>
    /\ calls = [i \in Ids |-> [status |-> "unsent", topic |-> "None", body |-> 0]]
    /\ removals = [i \in Ids |-> 0]
    /\ nextId = 0
    /\ inbound = << >>
    /\ responded = {}
    /\ topicSeq = 0
    /\ subscriptions = [t \in Topics |-> << >>]
    /\ invoked = [c \in Callbacks |-> << >>]

MaxTime == 4           \* the time the event loop is followed for
MaxBlock == 2          \* the longest a callback holds the thread
TickInterval == 1      \* the supervisor's sleep between two checks

\* the event loop of a session that has just connected
InitLoop ==
    /\ loopNow = 0
    /\ ready = << >>
    /\ busyLeft = 0
    /\ tickDue = TickInterval
    /\ tickLate = 0
    /\ deliveryLate = 0

MaxAbandoned == 1      \* connect tasks left behind before the model stops following

\* no attempt has been given up yet
InitOrphans == abandoned = 0

Locks == {"memory_lock", "bandwidth_lock", "frame_lock"}
Threads == {"loop", "ui"}

\* no lock is held and no thread is inside a with block
InitLocks ==
    /\ held = [l \in Locks |-> "none"]
    /\ at = [t \in Threads |-> [section |-> "none", step |-> 0]]
    /\ latest_frame = FALSE

MaxMinor == 11         \* releases 1.9.0 to 1.MaxMinor.MaxPatch of the engine are followed
MaxPatch == 1
MaxObjects == 3        \* ICE connections created

Versions == {<<1, minor, patch>> : minor \in 9..MaxMinor, patch \in 0..MaxPatch}

\* packaging.version orders releases by their numbers from the left
VersionGe(v, w) ==
    \/ v[1] > w[1]
    \/ v[1] = w[1] /\ v[2] > w[2]
    \/ v[1] = w[1] /\ v[2] = w[2] /\ v[3] >= w[3]

\* the digest table of the engine as shipped: sha-256 alone before 1.10.0,
\* three algorithms from then on, as labels before 1.11.0 and as objects of
\* the hashes module from then on
EngineDigests(v) ==
    IF VersionGe(v, <<1, 11, 0>>)
       THEN [a \in {"sha-256", "sha-384", "sha-512"} |-> "object"]
    ELSE IF VersionGe(v, <<1, 10, 0>>)
       THEN [a \in {"sha-256", "sha-384", "sha-512"} |-> "label"]
       ELSE [a \in {"sha-256"} |-> "label"]

\* the process before any import: some release of the engine is installed
InitImport ==
    /\ aiortc_version = <<1, MaxMinor, 0>>
    /\ X509_DIGEST_ALGORITHMS = EngineDigests(aiortc_version)
    /\ imported = << >>
    /\ aioice_Connection = "aioice"
    /\ engine_Connection = "unbound"
    /\ engine_lookup = "at_import"
    /\ created = << >>

\* memory_store and bandwidth_data as the module defines them
InitStore ==
    /\ connection_state = "Disconnected"
    /\ lowstate = << >>
    /\ sportmodestate = << >>
    /\ errors = << >>
    /\ error_count = 0
    /\ samples = << >>

MaxStateCalls == 2     \* calls of get_robot_state

\* no call of get_robot_state has been made
InitCall ==
    /\ grs = "idle"
    /\ state_received = FALSE
    /\ body_height = "None"
    /\ found = [t \in Topics |-> << >>]
    /\ ncalls = 0

Init ==
    /\ InitSession /\ InitText /\ InitAddress /\ InitApp /\ InitMux /\ InitLoop
    /\ InitOrphans /\ InitLocks /\ InitImport /\ InitStore /\ InitCall


\* ======================================================================
\* Go2WebRTCConnection (go2_webrtc_driver/webrtc_driver.py)
\* ======================================================================

\* Go2WebRTCConnection.__init__: a fresh connection object replaces conn
NewConnection ==
    /\ pc' = "None"
    /\ isConnected' = FALSE
    /\ connectionState' = "new"
    /\ iceConnectionState' = "new"
    /\ evPending' = FALSE
    /\ remoteDescription' = FALSE
    /\ data_channel_opened' = FALSE
    /\ readyState' = "connecting"

\* what init_webrtc raises for a signaling answer, "none" when it goes on
\* checks on the answer that let a rejection through
InitWebrtcOutcomeNoReject(a) ==
    CASE a = "none" -> "SystemExit"
      [] a = "malformed" -> "JSONDecodeError"
      [] OTHER -> "none"

InitWebrtcOutcome(a) ==
    CASE a = "none" -> "SystemExit"
      [] a = "reject" -> "SystemExit"
      [] a = "malformed" -> "JSONDecodeError"
      [] OTHER -> "none"

\* SystemExit raised inside a task stops the event loop: the supervisor
\* coroutine is never resumed
LoopDies(e) == e = "SystemExit"

\* connect() -> init_webrtc up to its first await: the peer object, the data
\* channel and the event handlers are created
ConnectCreatePeer ==
    /\ connStage = "created"
    /\ sup \notin {"stopped", "crashed"}
    /\ pc' = "peer"
    /\ connectionState' = "new"
    /\ iceConnectionState' = "new"
    /\ remoteDescription' = FALSE
    /\ data_channel_opened' = FALSE
    /\ readyState' = "connecting"
    /\ connStage' = "offer"
    /\ UNCHANGED <<supVars, clockVars, isConnected, evPending, answer, exc, histVars, textVars, addrVars, appVars, muxVars, loopVars, orphanVars, lockVars, importVars, storeVars, callVars>>

\* createOffer / setLocalDescription done; the signaling exchange and the
\* checks on the answer run without suspension
ConnectSignal ==
    /\ connStage = "offer"
    /\ sup \notin {"stopped", "crashed"}
    /\ IF pc = "None"
          THEN /\ exc' = "AttributeError"
               /\ connStage' = "raised"
               /\ UNCHANGED <<answer, sup>>
          ELSE \E a \in Answers :
                 /\ answer' = a
                 /\ exc' = InitWebrtcOutcome(a)
                 /\ connStage' = IF InitWebrtcOutcome(a) = "none" THEN "remote" ELSE "raised"
                 /\ sup' = IF LoopDies(InitWebrtcOutcome(a)) THEN "crashed" ELSE sup
    /\ UNCHANGED <<variant, history, retry_count, consecutive_fast_failures, reconnect_delay,
                   sleepLeft, connection_error_detected, shutdown_requested, failure,
                   clockVars, connVars, chanVars, histVars, textVars, addrVars, appVars, muxVars, loopVars, orphanVars, lockVars, importVars, storeVars, callVars>>

\* await self.pc.setRemoteDescription(remote_sdp)
ConnectSetRemote ==
    /\ connStage = "remote"
    /\ sup \notin {"stopped", "crashed"}
    /\ IF pc = "None"
          THEN /\ exc' = "AttributeError"
               /\ connStage' = "raised"
               /\ UNCHANGED remoteDescription
          ELSE /\ remoteDescription' = TRUE
               /\ connStage' = "dcwait"
               /\ UNCHANGED exc
    /\ UNCHANGED <<supVars, clockVars, pc, isConnected, connectionState,
                   iceConnectionState, evPending, answer, chanVars, histVars, textVars, addrVars, appVars, muxVars, loopVars, orphanVars, lockVars, importVars, storeVars, callVars>>

\* _patched_wait_datachannel_open: the poll that sees the channel open
ChannelSeenOpen ==
    IF variant = "cli" THEN data_channel_opened
    ELSE data_channel_opened \/ readyState = "open"

WaitOpenReturns ==
    /\ connStage = "dcwait"
    /\ sup \notin {"stopped", "crashed"}
    /\ ChannelSeenOpen
    /\ connStage' = "returned"
    /\ UNCHANGED <<supVars, clockVars, connVars, answer, exc, chanVars, histVars, textVars, addrVars, appVars, muxVars, loopVars, orphanVars, lockVars, importVars, storeVars, callVars>>

\* _patched_wait_datachannel_open: the deadline passes (30 s; cli 5 s)
WaitOpenDeadline ==
    /\ connStage = "dcwait"
    /\ sup \notin {"stopped", "crashed"}
    /\ elapsed' = IF variant = "cli" THEN Min(elapsed + 5, FastThreshold) ELSE FastThreshold
    /\ CASE variant = "cli" ->
              /\ exc' = "TimeoutError"
              /\ connStage' = "raised"
              /\ UNCHANGED chanVars
         [] variant \in {"lidar", "lidar2"} ->
              /\ readyState' = "open"
              /\ data_channel_opened' = TRUE
              /\ connStage' = "returned"
              /\ UNCHANGED exc
         [] OTHER ->
              /\ connStage' = "returned"
              /\ UNCHANGED <<exc, chanVars>>
    /\ UNCHANGED <<supVars, msgAge, sportAge, kaAge, connVars, answer, histVars, textVars, addrVars, appVars, muxVars, loopVars, orphanVars, lockVars, importVars, storeVars, callVars>>

\* on_connection_state_change: the scheduled handler runs and reads the
\* state the peer has by then
OnConnectionStateChange ==
    /\ evPending
    /\ sup \notin {"stopped", "crashed"}
    /\ evPending' = FALSE
    /\ isConnected' = IF pc = "None" THEN isConnected
                      ELSE IF connectionState = "connected" THEN TRUE
                      ELSE IF connectionState = "closed" THEN FALSE
                      ELSE isConnected
    /\ UNCHANGED <<supVars, clockVars, pc, connectionState, iceConnectionState,
                   remoteDescription, taskVars, chanVars, histVars, textVars, addrVars, appVars, muxVars, loopVars, orphanVars, lockVars, importVars, storeVars, callVars>>

\* ---------------------------------------------------------- environment
\* transport engine: overall and ICE state of the peer move together
EngineNext(cs) ==
    CASE cs = "new" -> IF remoteDescription THEN {<<"connecting", "checking">>} ELSE {}
      [] cs = "connecting" -> {<<"connected", "completed">>, <<"failed", "failed">>}
      [] cs = "connected" -> {<<"disconnected", "disconnected">>, <<"failed", "failed">>,
                              <<"failed", "completed">>}
      [] cs = "disconnected" -> {<<"connected", "completed">>, <<"failed", "failed">>}
      [] OTHER -> {}

EngineStateChange ==
    /\ pc = "peer"
    /\ sup \notin {"stopped", "crashed"}
    /\ \E n \in EngineNext(connectionState) :
         /\ connectionState' = n[1]
         /\ iceConnectionState' = n[2]
    /\ evPending' = TRUE
    /\ UNCHANGED <<supVars, clockVars, pc, isConnected, remoteDescription, taskVars,
                   chanVars, histVars, textVars, addrVars, appVars, muxVars, loopVars, orphanVars, lockVars, importVars, storeVars, callVars>>

\* the raw channel-open event, then the validation handshake on top of it
ChannelOpens ==
    /\ pc = "peer"
    /\ sup \notin {"stopped", "crashed"}
    /\ connectionState = "connected"
    /\ readyState = "connecting"
    /\ readyState' = "open"
    /\ UNCHANGED <<supVars, clockVars, connVars, taskVars, data_channel_opened, histVars, textVars, addrVars, appVars, muxVars, loopVars, orphanVars, lockVars, importVars, storeVars, callVars>>

ChannelValidated ==
    /\ pc = "peer"
    /\ sup \notin {"stopped", "crashed"}
    /\ connectionState = "connected"
    /\ readyState = "open"
    /\ ~data_channel_opened
    /\ data_channel_opened' = TRUE
    /\ UNCHANGED <<supVars, clockVars, connVars, taskVars, readyState, histVars, textVars, addrVars, appVars, muxVars, loopVars, orphanVars, lockVars, importVars, storeVars, callVars>>

ChannelCloses ==
    /\ readyState = "open"
    /\ sup \notin {"stopped", "crashed"}
    /\ connectionState \in BadStates
    /\ readyState' = "closed"
    /\ UNCHANGED <<supVars, clockVars, connVars, taskVars, data_channel_opened, histVars, textVars, addrVars, appVars, muxVars, loopVars, orphanVars, lockVars, importVars, storeVars, callVars>>


\* ======================================================================
\* Reconnection supervisors
\* ======================================================================

\* the delay computed in the except-branch of the retry loop
ReconnectDelay(v, rc, cf) ==
    IF v = "cli" THEN Min(MaxDelay, Max(2, cf * 5))
    ELSE IF cf > 3 THEN Min(MaxDelay, 10 * cf)
    ELSE Min(rc * 2, MaxDelay)

\* consecutive_fast_failures after a failure that lasted dur seconds
FastFailures(dur) ==
    IF dur < FastThreshold THEN consecutive_fast_failures + 1 ELSE 0

\* except Exception: classify the failure by its duration and pick the delay
FailureCounters(dur) ==
    /\ retry_count' = retry_count + 1
    /\ consecutive_fast_failures' = FastFailures(dur)
    /\ reconnect_delay' = ReconnectDelay(variant, retry_count + 1, FastFailures(dur))

NoCounters == UNCHANGED <<retry_count, consecutive_fast_failures, reconnect_delay>>

\* the connect task and the locals of the attempt are dropped
DropTask ==
    /\ connStage' = "idle"
    /\ answer' = "unset"
    /\ exc' = "none"

\* Where a failure takes the supervisor.  monitor and cli run the handler
\* and then disconnect; lidar2 and lidar disconnect in the finally block of
\* the session (entered only once the session was alive) and run the
\* handler afterwards; a failed connect goes to the handler directly in
\* lidar2 and returns normally ("clean exit") in lidar.
Fail(dur, wasAlive, cause) ==
    /\ kaAge' = 0
    /\ failure' = IF variant = "lidar" /\ ~wasAlive THEN "none" ELSE cause
    /\ IF variant \in {"monitor", "cli"}
          THEN /\ FailureCounters(dur)
               /\ sup' = "disconnecting"
               /\ elapsed' = 0
               /\ UNCHANGED sleepLeft
       ELSE IF wasAlive
          THEN /\ sup' = "disconnecting"
               /\ elapsed' = dur
               /\ NoCounters
               /\ UNCHANGED sleepLeft
       ELSE IF variant = "lidar2" /\ shutdown_requested
          THEN /\ sup' = "stopped"
               /\ elapsed' = 0
               /\ NoCounters
               /\ UNCHANGED sleepLeft
       ELSE IF variant = "lidar2"
          THEN /\ FailureCounters(dur)
               /\ sleepLeft' = ReconnectDelay(variant, retry_count + 1, FastFailures(dur))
               /\ sup' = "backoff"
               /\ elapsed' = 0
          ELSE /\ retry_count' = 0
               /\ consecutive_fast_failures' = 0
               /\ sup' = "start"
               /\ elapsed' = 0
               /\ UNCHANGED <<reconnect_delay, sleepLeft>>

\* with memory_lock: memory_store['connection_state'] = state
write_connection_state(state) == connection_state' = state

\* the peer object of the current connection exists and was never closed
PeerUnclosed == pc = "peer" /\ connectionState # "closed"

\* top of the retry loop: a new connection object and a new connect attempt
BeginAttempt ==
    /\ sup = "start"
    /\ retry_count < MaxRetries
    /\ leaked < MaxLeaked
    /\ abandoned < MaxAbandoned
    /\ ~(variant \in {"lidar2", "cli"} /\ shutdown_requested)
    /\ leaked' = IF PeerUnclosed THEN leaked + 1 ELSE leaked
    /\ UNCHANGED <<textVars, addrVars, appVars, muxVars, loopVars, orphanVars, lockVars, importVars, storeVars, callVars>>
    /\ NewConnection
    /\ elapsed' = 0
    /\ connection_error_detected' =
          IF variant \in {"monitor", "cli"} THEN FALSE ELSE connection_error_detected
    /\ connStage' = "created"
    /\ answer' = "unset"
    /\ exc' = "none"
    /\ sup' = "connecting"
    /\ UNCHANGED <<variant, history, retry_count, consecutive_fast_failures, reconnect_delay,
                   sleepLeft, shutdown_requested, failure, msgAge, sportAge, kaAge>>

\* the loop condition (lidar2) or the test deadline (cli) ends the supervisor
SupExit ==
    /\ sup = "start"
    /\ variant \in {"lidar2", "cli"}
    /\ shutdown_requested
    /\ sup' = "stopped"
    /\ UNCHANGED <<variant, history, retry_count, consecutive_fast_failures, reconnect_delay,
                   sleepLeft, connection_error_detected, shutdown_requested, failure,
                   clockVars, connVars, taskVars, chanVars, histVars, textVars, addrVars, appVars, muxVars, loopVars, orphanVars, lockVars, importVars, storeVars, callVars>>

TaskDone == connStage \in {"returned", "raised"}

\* the tasks left running when wait_for gives up: the timeout cancels the
\* coroutine it was given, which is conn.connect() itself in lidar2 and lidar
\* and connect_with_monitoring in the others, whose connect_task nobody cancels
Orphans == IF variant \in {"lidar2", "lidar"} THEN abandoned ELSE abandoned + 1

\* the connect() task of an attempt given up comes to its end by itself
AbandonedTaskEnds ==
    /\ abandoned > 0
    /\ abandoned' = abandoned - 1
    /\ UNCHANGED <<supVars, clockVars, connVars, taskVars, chanVars, histVars, textVars,
                   addrVars, appVars, muxVars, loopVars, lockVars, importVars, storeVars, callVars>>

\* connect_with_monitoring sees the fault flag while connect() is running
\* and cancels the task
SupConnectFault ==
    /\ sup = "connecting"
    /\ variant \in {"monitor", "cli"}
    /\ ~TaskDone
    /\ connection_error_detected
    /\ DropTask
    /\ Fail(elapsed, FALSE, "background")
    /\ UNCHANGED <<variant, history, connection_error_detected, shutdown_requested,
                   msgAge, sportAge, connVars, chanVars, leaked, textVars, addrVars, appVars, muxVars, loopVars, orphanVars, lockVars, importVars, storeVars, callVars>>

\* asyncio.wait_for(..., timeout=60.0) expires.  lidar2 and lidar await
\* connect() directly and the timeout cancels it; monitor and cli wrap
\* connect() in a task of their own, which is left behind
SupConnectTimeout ==
    /\ abandoned < MaxAbandoned
    /\ sup = "connecting"
    /\ ~TaskDone
    /\ connStage # "created"
    /\ DropTask
    /\ Fail(FastThreshold, FALSE, "timeout")
    /\ msgAge' = Advance(msgAge, StallLimit + 1, StallLimit + 1)
    /\ sportAge' = Advance(sportAge, StallLimit + 1, StallLimit + 1)
    /\ abandoned' = Orphans
    /\ UNCHANGED <<variant, history, connection_error_detected, shutdown_requested,
                   connVars, chanVars, leaked, textVars, addrVars, appVars, muxVars, loopVars, lockVars, importVars, storeVars, callVars>>

\* lidar2, lidar: session set-up after connect() returned (initial
\* keepalive, subscription) up to the first sleep of the loop
EnterLoop ==
    /\ sup' = "alive"
    /\ kaAge' = 0
    /\ NoCounters
    /\ UNCHANGED <<sleepLeft, elapsed, failure>>

\* connect() is over: it raised an Exception, or it returned
SupConnectDone ==
    /\ sup = "connecting"
    /\ TaskDone
    /\ DropTask
    /\ IF connStage = "raised"
          THEN Fail(elapsed, FALSE, exc)
       ELSE IF variant = "monitor" /\ connection_error_detected
          THEN Fail(elapsed, FALSE, "background")
       ELSE IF variant \in {"monitor", "cli"}
          THEN /\ sup' = "postconnect"
               /\ NoCounters
               /\ UNCHANGED <<sleepLeft, elapsed, kaAge, failure>>
       ELSE IF variant = "lidar2" /\ shutdown_requested
          THEN /\ sup' = "stopped"
               /\ NoCounters
               /\ UNCHANGED <<sleepLeft, elapsed, kaAge, failure>>
          ELSE EnterLoop
    /\ UNCHANGED <<variant, history, connection_error_detected, shutdown_requested,
                   msgAge, sportAge, connVars, chanVars, leaked, textVars, addrVars, appVars, muxVars, loopVars, orphanVars, lockVars, importVars, storeVars, callVars>>

\* monitor, cli: poll the peer state after connect() returned, then set the
\* session up (initial keepalive, message-time tracking, subscriptions)
PostConnectPoll ==
    /\ sup = "postconnect"
    /\ \/ /\ ~connection_error_detected
          /\ connectionState = "connected"
          /\ remoteDescription
          /\ sup' = "alive"
          /\ kaAge' = 0
          /\ msgAge' = IF variant = "monitor" THEN NoStamp ELSE msgAge
          /\ elapsed' = IF variant = "cli" THEN 0 ELSE elapsed
          /\ write_connection_state(IF variant = "monitor" THEN "Connected"
                                    ELSE connection_state)
          /\ NoCounters
          /\ UNCHANGED <<sleepLeft, failure>>
       \/ /\ \/ connection_error_detected
             \/ connectionState = "connected" /\ ~remoteDescription
             \/ connectionState \in BadStates
             \/ connectionState \notin BadStates \cup {"connected"}
          /\ Fail(elapsed, FALSE,
                  IF connection_error_detected THEN "background" ELSE "state")
          /\ UNCHANGED <<msgAge, connection_state>>
    /\ UNCHANGED <<variant, history, connection_error_detected, shutdown_requested,
                   sportAge, connVars, taskVars, chanVars, leaked, textVars, addrVars, appVars, muxVars, loopVars, orphanVars, lockVars, importVars,
                   lowstate, sportmodestate, errors, error_count, samples, callVars>>

\* ---------------------------------------------------- the monitoring loop
KaInterval == IF variant = "cli" THEN CliKeepaliveInterval ELSE KeepaliveInterval
TickLength == IF variant = "lidar" THEN LidarTick ELSE 1

\* pc_state as the loop reads it
PcStateSeen ==
    IF variant = "cli" THEN connectionState
    ELSE IF pc = "peer" THEN connectionState ELSE "unknown"

\* "No sensor messages for more than 10 s", with the ages m (and s) at the check
Stalled(m, s) ==
    CASE variant = "lidar" -> FALSE
      [] variant = "cli" -> (m # NoStamp /\ m > StallLimit) \/ (s # NoStamp /\ s > StallLimit)
      [] OTHER -> m # NoStamp /\ m > StallLimit

\* the condition under which one iteration declares the connection lost
ConnectionLost(m, s) ==
    CASE variant = "lidar" -> ~isConnected
      [] variant = "cli" -> \/ ~isConnected
                            \/ Stalled(m, s)
                            \/ PcStateSeen \in BadStates
                            \/ iceConnectionState \in BadStates
      [] OTHER -> \/ ~isConnected
                  \/ Stalled(m, s)
                  \/ PcStateSeen \in BadStates

\* may the keepalive be sent at all (monitor checks the channel first)
KeepaliveAllowed == IF variant = "monitor" THEN readyState = "open" ELSE TRUE

\* a due send that is taken for a keepalive whether it raised or not
AfterKeepaliveAlways(sent, k) == IF k >= KaInterval THEN 0 ELSE k

\* last_keepalive moves only when the keepalive went out: a send that
\* raised, or was not tried, leaves it where it was
AfterKeepalive(sent, k) == IF sent /\ KeepaliveAllowed THEN 0 ELSE k

\* a loop that never tests the fault flag
LoopBreaksIgnoringFault == FALSE

\* the tests at the top of the next iteration
LoopBreaks == variant \in {"monitor", "cli"} /\ connection_error_detected
LoopExits == variant \in {"lidar2", "cli"} /\ shutdown_requested

\* one iteration of the keepalive loop: sleep, check the connection, send
\* the keepalive when it is due, then the tests at the top of the loop
MonitorTick ==
    /\ sup = "alive"
    /\ LET e == Min(elapsed + TickLength, FastThreshold)
           m == Advance(msgAge, 1, StallLimit + 1)
           s == Advance(sportAge, 1, StallLimit + 1)
           k == IF variant = "lidar" THEN kaAge ELSE Min(kaAge + 1, KaInterval)
           due == variant # "lidar" /\ k >= KaInterval
       IN  /\ msgAge' = m
           /\ sportAge' = s
           /\ IF ConnectionLost(m, s)
                 THEN Fail(e, TRUE, "lost")
              ELSE \E sent \in IF due THEN BOOLEAN ELSE {FALSE} :
                     IF LoopExits
                        THEN /\ sup' = "closing"
                             /\ elapsed' = 0
                             /\ kaAge' = 0
                             /\ NoCounters
                             /\ UNCHANGED <<sleepLeft, failure>>
                     ELSE IF LoopBreaks
                        THEN Fail(e, TRUE, "background")
                        ELSE /\ sup' = "alive"
                             /\ elapsed' = e
                             /\ kaAge' = AfterKeepalive(sent, k)
                             /\ NoCounters
                             /\ UNCHANGED <<sleepLeft, failure>>
    /\ UNCHANGED <<variant, history, connection_error_detected, shutdown_requested,
                   connVars, taskVars, chanVars, leaked, textVars, addrVars, appVars, muxVars, loopVars, orphanVars, lockVars, importVars, storeVars, callVars>>

\* lowstate_callback / sportmodestate_callback / lidar_callback_task record
\* the arrival time of a message of a subscribed topic
MessageArrives ==
    /\ sup = "alive"
    /\ variant # "lidar"
    /\ connectionState = "connected"
    /\ readyState = "open"
    /\ \E topic \in {"lowstate", "sportmode"} :
         IF variant = "cli" /\ topic = "sportmode"
            THEN sportAge' = 0 /\ UNCHANGED msgAge
            ELSE msgAge' = 0 /\ UNCHANGED sportAge
    /\ UNCHANGED <<supVars, elapsed, kaAge, connVars, taskVars, chanVars, histVars, textVars, addrVars, appVars, muxVars, loopVars, orphanVars, lockVars, importVars, storeVars, callVars>>

\* exception_handler: the loop reports an exception of a background task;
\* the known fault sets the flag, anything else is only logged
ExceptionHandler ==
    /\ variant \in {"monitor", "cli"}
    /\ sup \in {"connecting", "postconnect", "alive", "disconnecting", "backoff"}
    /\ \E known \in BOOLEAN :
         connection_error_detected' = IF known THEN TRUE ELSE connection_error_detected
    /\ UNCHANGED <<variant, history, sup, retry_count, consecutive_fast_failures, reconnect_delay,
                   sleepLeft, shutdown_requested, failure, clockVars, connVars, taskVars,
                   chanVars, histVars, textVars, addrVars, appVars, muxVars, loopVars, orphanVars, lockVars, importVars, storeVars, callVars>>

\* ------------------------------------------------------------ disconnect
\* Go2WebRTCConnection.disconnect ran to its end: the peer is closed and
\* released, nothing of it can be read any more
DisconnectEffect ==
    /\ pc' = "None"
    /\ isConnected' = FALSE
    /\ connectionState' = "closed"
    /\ iceConnectionState' = "closed"
    /\ evPending' = FALSE
    /\ remoteDescription' = FALSE
    /\ readyState' = "closed"
    /\ data_channel_opened' = FALSE

\* lidar2 only: disconnect() timed out and conn.pc.close() is awaited
\* directly; conn.pc and conn.isConnected are left as they are
ForcedCloseEffect ==
    /\ connectionState' = "closed"
    /\ iceConnectionState' = "closed"
    /\ evPending' = TRUE
    /\ readyState' = "closed"
    /\ UNCHANGED <<pc, isConnected, remoteDescription, data_channel_opened>>

\* seconds a timed-out disconnect adds before lidar2 / lidar read the clock
DisconnectTimeout == IF variant = "lidar2" THEN 3 ELSE 5

\* what follows the disconnect of a failed session
AfterDisconnect(dur) ==
    CASE variant = "monitor" ->
           /\ connection_error_detected' = FALSE
           /\ sleepLeft' = reconnect_delay
           /\ sup' = "backoff"
           /\ NoCounters
      [] variant = "cli" ->
           /\ sleepLeft' = reconnect_delay
           /\ sup' = "backoff"
           /\ NoCounters
           /\ UNCHANGED connection_error_detected
      [] variant = "lidar2" /\ shutdown_requested ->
           /\ sup' = "stopped"
           /\ NoCounters
           /\ UNCHANGED <<sleepLeft, connection_error_detected>>
      [] OTHER ->
           /\ FailureCounters(dur)
           /\ sleepLeft' = ReconnectDelay(variant, retry_count + 1, FastFailures(dur))
           /\ sup' = "backoff"
           /\ UNCHANGED connection_error_detected

\* await asyncio.wait_for(conn.disconnect(), timeout=...) completes in time
DisconnectCompletes ==
    /\ sup = "disconnecting"
    /\ DisconnectEffect
    /\ AfterDisconnect(elapsed)
    /\ elapsed' = 0
    /\ UNCHANGED <<variant, history, shutdown_requested, failure, msgAge, sportAge, kaAge,
                   taskVars, leaked, textVars, addrVars, appVars, muxVars, loopVars, orphanVars, lockVars, importVars, storeVars, callVars>>

\* ... or the timeout cancels it while pc.close() is still pending
DisconnectTimesOut ==
    /\ sup = "disconnecting"
    /\ pc = "peer"
    /\ \/ UNCHANGED <<connVars, chanVars>>
       \/ variant = "lidar2" /\ ForcedCloseEffect
    /\ AfterDisconnect(Min(elapsed + DisconnectTimeout, FastThreshold))
    /\ elapsed' = 0
    /\ msgAge' = Advance(msgAge, DisconnectTimeout, StallLimit + 1)
    /\ sportAge' = Advance(sportAge, DisconnectTimeout, StallLimit + 1)
    /\ UNCHANGED <<variant, history, shutdown_requested, failure, kaAge, taskVars, leaked, textVars, addrVars, appVars, muxVars, loopVars, orphanVars, lockVars, importVars, storeVars, callVars>>

\* the disconnect on the way out (shutdown flag, test deadline, interrupt)
FinalDisconnect ==
    /\ sup = "closing"
    /\ \/ DisconnectEffect
       \/ pc = "peer" /\ UNCHANGED <<connVars, chanVars>>
       \/ pc = "peer" /\ variant = "lidar2" /\ ForcedCloseEffect
    /\ sup' = "stopped"
    /\ retry_count' = IF variant = "lidar2" THEN 0 ELSE retry_count
    /\ consecutive_fast_failures' =
          IF variant = "lidar2" THEN 0 ELSE consecutive_fast_failures
    /\ write_connection_state(IF variant = "monitor" THEN "Disconnected"
                              ELSE connection_state)
    /\ UNCHANGED <<variant, history, reconnect_delay, sleepLeft, connection_error_detected,
                   shutdown_requested, failure, clockVars, taskVars, histVars, textVars, addrVars, appVars, muxVars, loopVars, orphanVars, lockVars, importVars,
                   lowstate, sportmodestate, errors, error_count, samples, callVars>>

\* ---------------------------------------------------------------- backoff
\* one step of the sleep before the next attempt: 1 s increments in monitor
\* and lidar2 (which tests the shutdown flag first), one sleep in cli, lidar
\* a sleep that never looks at the shutdown flag
SleepCutNever == FALSE

\* lidar2 tests the shutdown flag before each 1 s sleep and leaves the loop
SleepCut == variant = "lidar2" /\ shutdown_requested

BackoffSleep ==
    /\ sup = "backoff"
    /\ LET left == IF SleepCut THEN 0
                   ELSE IF variant \in {"monitor", "lidar2"} /\ sleepLeft > 0
                        THEN sleepLeft - 1
                   ELSE 0
           slept == IF SleepCut THEN 0
                    ELSE sleepLeft - left
       IN  /\ sleepLeft' = left
           /\ sup' = IF left = 0 THEN "start" ELSE "backoff"
           /\ msgAge' = Advance(msgAge, slept, StallLimit + 1)
           /\ sportAge' = Advance(sportAge, slept, StallLimit + 1)
           /\ connection_error_detected' =
                 IF variant = "cli" /\ left = 0 THEN FALSE ELSE connection_error_detected
           /\ failure' = IF left = 0 THEN "none" ELSE failure
    /\ UNCHANGED <<variant, history, retry_count, consecutive_fast_failures, reconnect_delay,
                   shutdown_requested, elapsed, kaAge, connVars, taskVars, chanVars,
                   histVars, textVars, addrVars, appVars, muxVars, loopVars, orphanVars, lockVars, importVars, storeVars, callVars>>

\* --------------------------------------------------------------- shutdown
\* signal_handler sets _shutdown_requested (lidar2); the test deadline
\* passes (cli); monitor and lidar are interrupted where they stand and
\* monitor runs its final cleanup
RequestShutdown ==
    /\ ~shutdown_requested
    /\ sup \notin {"stopped", "crashed", "closing"}
    /\ shutdown_requested' = TRUE
    /\ sup' = CASE variant = "monitor" -> "closing"
                [] variant = "lidar" -> "stopped"
                [] OTHER -> sup
    /\ UNCHANGED <<variant, history, retry_count, consecutive_fast_failures, reconnect_delay,
                   sleepLeft, connection_error_detected, failure, clockVars, connVars,
                   taskVars, chanVars, histVars, textVars, addrVars, appVars, muxVars, loopVars, orphanVars, lockVars, importVars, storeVars, callVars>>

\* ==================================================================== Next
Next ==
    \/ BeginAttempt
    \/ SupExit
    \/ ConnectCreatePeer
    \/ ConnectSignal
    \/ ConnectSetRemote
    \/ WaitOpenReturns
    \/ WaitOpenDeadline
    \/ OnConnectionStateChange
    \/ EngineStateChange
    \/ ChannelOpens
    \/ ChannelValidated
    \/ ChannelCloses
    \/ SupConnectFault
    \/ SupConnectTimeout
    \/ SupConnectDone
    \/ PostConnectPoll
    \/ MonitorTick
    \/ MessageArrives
    \/ ExceptionHandler
    \/ DisconnectCompletes
    \/ DisconnectTimesOut
    \/ FinalDisconnect
    \/ BackoffSleep
    \/ RequestShutdown
    \/ AbandonedTaskEnds

Spec == Init /\ [][Next]_vars

\* ------------------------------------------------- the retry loop by itself
\* One pass of the retry loop that ends in a failure, reduced to what the
\* except-branch reads of it: how long the attempt lasted and whether the
\* session had come alive.  The handler, the disconnect and the sleep are
\* the ones of the supervisors above.
AttemptEnds ==
    /\ sup = "start"
    /\ Len(history) < MaxFailures
    /\ ~shutdown_requested
    /\ \E dur \in Durations, wasAlive \in BOOLEAN :
         /\ history' = Append(history, <<dur, wasAlive>>)
         /\ Fail(Min(dur, FastThreshold), wasAlive, IF wasAlive THEN "lost" ELSE "timeout")
    /\ UNCHANGED <<variant, connection_error_detected, shutdown_requested, msgAge,
                   sportAge, connVars, taskVars, chanVars, leaked, textVars, addrVars, appVars, muxVars, loopVars, orphanVars, lockVars, importVars, storeVars, callVars>>

NextBackoff ==
    \/ AttemptEnds
    \/ DisconnectCompletes
    \/ BackoffSleep

SpecBackoff == Init /\ [][NextBackoff]_vars

\* ------------------------------------------ the connection object by itself
\* One Go2WebRTCConnection whose caller calls connect(), disconnect() and
\* reconnect() in any order; no supervisor runs.

\* a disconnect() that closes the peer but keeps the reference to it
DisconnectKeepingPeer ==
    /\ isConnected' = FALSE
    /\ connectionState' = IF pc = "peer" THEN "closed" ELSE connectionState
    /\ UNCHANGED <<pc, iceConnectionState, evPending, remoteDescription, chanVars>>

\* Go2WebRTCConnection.disconnect: close and release the peer if there is
\* one, then clear isConnected
Disconnect ==
    IF pc = "peer"
       THEN DisconnectEffect
       ELSE /\ isConnected' = FALSE
            /\ UNCHANGED <<pc, connectionState, iceConnectionState, evPending,
                           remoteDescription, chanVars>>

Serials == {"S1", "S2"}
Addresses == {"A1", "A2"}

\* the dictionaries discover_ip_sn() can return: serial number -> address
Discoveries == UNION {[D -> Addresses] : D \in SUBSET Serials}

\* a connect() that takes whatever the dictionary holds for the serial
\* number and goes on to negotiate
ConnectBeginsUnchecked ==
    /\ answer' = "unset"
    /\ connStage' = "created"
    /\ exc' = "none"
    /\ UNCHANGED sn
    /\ IF ip = "None" /\ sn # "None"
          THEN \E d \in Discoveries :
                  /\ discovered_ip_sn_addresses' = d
                  /\ ip' = IF sn \in DOMAIN d THEN d[sn] ELSE "None"
          ELSE UNCHANGED <<ip, discovered_ip_sn_addresses>>

\* connect() in LocalSTA mode, up to the call of init_webrtc: the address
\* is looked up when none was given and a serial number was
ConnectBegins ==
    /\ answer' = "unset"
    /\ UNCHANGED sn
    /\ IF ip = "None" /\ sn # "None"
          THEN \E d \in Discoveries :
                  /\ discovered_ip_sn_addresses' = d
                  /\ IF d # << >> /\ sn \in DOMAIN d
                        THEN /\ ip' = d[sn]
                             /\ connStage' = "created"
                             /\ exc' = "none"
                        ELSE /\ ip' = ip
                             /\ connStage' = "raised"
                             /\ exc' = "ValueError"
          ELSE /\ connStage' = "created"
               /\ exc' = "none"
               /\ UNCHANGED <<ip, discovered_ip_sn_addresses>>

\* the caller calls connect() on a session that has no peer
CallConnect ==
    /\ sup \notin {"stopped", "crashed"}
    /\ connStage \in {"idle", "returned", "raised"}
    /\ pc = "None"
    /\ ConnectBegins
    /\ UNCHANGED <<supVars, clockVars, connVars, chanVars, histVars, textVars, appVars, muxVars, loopVars, orphanVars, lockVars, importVars, storeVars, callVars>>

\* the caller calls disconnect(), whatever connect() is doing
CallDisconnect ==
    /\ sup \notin {"stopped", "crashed"}
    /\ Disconnect
    /\ UNCHANGED <<supVars, clockVars, taskVars, histVars, textVars, addrVars, appVars, muxVars, loopVars, orphanVars, lockVars, importVars, storeVars, callVars>>

\* a reconnect() that goes to connect() without disconnecting
CallReconnectSkipping ==
    /\ sup \notin {"stopped", "crashed"}
    /\ connStage \in {"idle", "returned", "raised"}
    /\ connStage' = "created"
    /\ answer' = "unset"
    /\ exc' = "none"
    /\ UNCHANGED <<supVars, clockVars, connVars, chanVars, histVars, textVars, addrVars, appVars, muxVars, loopVars, orphanVars, lockVars, importVars, storeVars, callVars>>

\* reconnect(): await self.disconnect(), then straight into connect()
CallReconnect ==
    /\ sup \notin {"stopped", "crashed"}
    /\ connStage \in {"idle", "returned", "raised"}
    /\ Disconnect
    /\ ConnectBegins
    /\ UNCHANGED <<supVars, clockVars, histVars, textVars, appVars, muxVars, loopVars, orphanVars, lockVars, importVars, storeVars, callVars>>

NextDriver ==
    \/ CallConnect
    \/ CallDisconnect
    \/ CallReconnect
    \/ ConnectCreatePeer
    \/ ConnectSignal
    \/ ConnectSetRemote
    \/ WaitOpenReturns
    \/ WaitOpenDeadline
    \/ OnConnectionStateChange
    \/ EngineStateChange
    \/ ChannelOpens
    \/ ChannelValidated
    \/ ChannelCloses

\* the caller constructs the connection with an address, a serial number,
\* both or neither
InitDriver ==
    /\ InitSession
    /\ InitText
    /\ sn \in Serials \cup {"None"}
    /\ ip \in Addresses \cup {"None"}
    /\ discovered_ip_sn_addresses = << >>
    /\ InitApp
    /\ InitMux
    /\ InitLoop
    /\ InitOrphans
    /\ InitLocks
    /\ InitImport
    /\ InitStore
    /\ InitCall

SpecDriver == InitDriver /\ [][NextDriver]_vars

\* --------------------------------------------------------- the SDP rewrite
\* An SDP text is a sequence of tokens: the two line terminators, the three
\* line prefixes the rewrite looks for, a blank and a port digit.  The tokens
\* the rewrite writes ("9", "UDP/DTLS/SCTP", "DTLS/SCTP", "5000", ":5000",
\* "webrtc-datachannel", "65535") only occur in its results.

MaxLen == 4        \* tokens in an input text
MaxPasses == 2     \* times the rewrite is applied to its own result

Rewriters == {"sensor_monitor", "lidar2", "lidar", "min_connect_status"}
InputTokens == {"CR", "LF", "m=application", "a=sctp-port", "a=sctpmap", " ", "7"}
Texts == UNION {[1..n -> InputTokens] : n \in 0..MaxLen}

\* str.splitlines: CR LF, CR and LF each end a line; no empty last line
RECURSIVE SplitFrom(_, _, _)
SplitFrom(t, i, cur) ==
    IF i > Len(t)
       THEN IF cur = << >> THEN << >> ELSE <<cur>>
       ELSE IF t[i] = "CR"
               THEN <<cur>> \o SplitFrom(t, IF i < Len(t) /\ t[i + 1] = "LF"
                                               THEN i + 2 ELSE i + 1, << >>)
               ELSE IF t[i] = "LF"
                       THEN <<cur>> \o SplitFrom(t, i + 1, << >>)
                       ELSE SplitFrom(t, i + 1, Append(cur, t[i]))

splitlines(t) == SplitFrom(t, 1, << >>)

\* str.split(): the runs of tokens between blanks
RECURSIVE PartsFrom(_, _, _)
PartsFrom(line, i, cur) ==
    IF i > Len(line)
       THEN IF cur = << >> THEN << >> ELSE <<cur>>
       ELSE IF line[i] = " "
               THEN (IF cur = << >> THEN << >> ELSE <<cur>>) \o PartsFrom(line, i + 1, << >>)
               ELSE PartsFrom(line, i + 1, Append(cur, line[i]))

split(line) == PartsFrom(line, 1, << >>)

\* str.startswith for the prefixes, each of which is one token
startswith(line, prefix) == line # << >> /\ line[1] = prefix

SctpmapLine == <<"a=sctpmap", ":5000", " ", "webrtc-datachannel", " ", "65535">>

\* "\r\n".join(lines) + "\r\n"
RECURSIVE join(_)
join(lines) ==
    IF lines = << >> THEN << >>
    ELSE IF Len(lines) = 1 THEN lines[1]
    ELSE lines[1] \o <<"CR", "LF">> \o join(Tail(lines))

\* a rewrite that takes only a=sctp-port lines for an sctpmap
SawSctpmapPortOnly(lines) ==
    \E k \in 1..Len(lines) : startswith(lines[k], "a=sctp-port")

\* saw_sctpmap of sensor_monitor.py and lidar2/app.py
SawSctpmap(lines) ==
    \E k \in 1..Len(lines) :
        startswith(lines[k], "a=sctp-port") \/ startswith(lines[k], "a=sctpmap")

SawMApplication(lines) ==
    \E k \in 1..Len(lines) : startswith(lines[k], "m=application")

\* one line in sensor_monitor.py and lidar2/app.py
LineKeepingPort(line) ==
    IF startswith(line, "m=application")
       THEN LET parts == split(line)
                port == IF Len(parts) > 1 THEN parts[2] ELSE <<"9">>
            IN  <<"m=application", " ">> \o port \o <<" ", "UDP/DTLS/SCTP", " ", "5000">>
       ELSE IF startswith(line, "a=sctp-port") THEN SctpmapLine ELSE line

\* one line in lidar/app.py and min_connect_status.py
LineFixedPort(line) ==
    IF startswith(line, "m=application")
       THEN <<"m=application", " ", "9", " ", "DTLS/SCTP", " ", "5000">>
       ELSE IF startswith(line, "a=sctp-port") THEN SctpmapLine ELSE line

\* _rewrite_sdp_to_legacy of sensor_monitor.py and lidar2/app.py
RewriteKeepingPort(t) ==
    LET in == splitlines(t)
        out == [k \in 1..Len(in) |-> LineKeepingPort(in[k])]
        all == IF SawMApplication(in) /\ ~SawSctpmap(in)
                  THEN Append(out, SctpmapLine) ELSE out
    IN  join(all) \o <<"CR", "LF">>

\* _rewrite_sdp_to_legacy of lidar/app.py and min_connect_status.py
RewriteFixedPort(t) ==
    LET in == splitlines(t)
        out == [k \in 1..Len(in) |-> LineFixedPort(in[k])]
        all == IF SawMApplication(in) /\ ~SawSctpmapPortOnly(in)
                  THEN Append(out, SctpmapLine) ELSE out
    IN  join(all) \o <<"CR", "LF">>

KeepsPort(r) == r \in {"sensor_monitor", "lidar2"}

rewrite_sdp_to_legacy(r, t) ==
    IF KeepsPort(r) THEN RewriteKeepingPort(t) ELSE RewriteFixedPort(t)

\* a text and a copy of the rewrite are chosen
InitRewrite ==
    /\ InitSession
    /\ variant = "monitor"
    /\ rewriter \in Rewriters
    /\ sdp \in Texts
    /\ rewritten = << >>
    /\ sentSdp = << >>
    /\ InitAddress
    /\ InitApp
    /\ InitMux
    /\ InitLoop
    /\ InitOrphans
    /\ InitLocks
    /\ InitImport
    /\ InitStore
    /\ InitCall

\* the rewrite is applied to the text
RewriteOffer ==
    /\ rewritten = << >>
    /\ rewritten' = <<rewrite_sdp_to_legacy(rewriter, sdp)>>
    /\ UNCHANGED <<supVars, clockVars, connVars, taskVars, chanVars, histVars,
                   rewriter, sdp, sentSdp, addrVars, appVars, muxVars, loopVars, orphanVars, lockVars, importVars, storeVars, callVars>>

\* the rewrite is applied to its own last result
RewriteAgain ==
    /\ rewritten # << >>
    /\ Len(rewritten) < MaxPasses
    /\ rewritten' = Append(rewritten,
                           rewrite_sdp_to_legacy(rewriter, rewritten[Len(rewritten)]))
    /\ UNCHANGED <<supVars, clockVars, connVars, taskVars, chanVars, histVars,
                   rewriter, sdp, sentSdp, addrVars, appVars, muxVars, loopVars, orphanVars, lockVars, importVars, storeVars, callVars>>

NextRewrite ==
    \/ RewriteOffer
    \/ RewriteAgain

SpecRewrite == InitRewrite /\ [][NextRewrite]_vars

\* ------------------------------------------------------- sending the offer
\* The offer of the engine is a list of lines, each ended by CR LF; its
\* certificate fingerprints are those of the engine's digest table.

MaxOfferLines == 3

EngineLines == {<<"m=application", " ", "7">>, <<"a=sctp-port">>,
                <<"a=fingerprint:sha-256">>, <<"a=fingerprint:sha-384">>,
                <<"a=fingerprint:sha-512">>}

Offers == {join(ls) \o <<"CR", "LF">> :
              ls \in UNION {[1..n -> EngineLines] : n \in 1..MaxOfferLines}}

\* a filter that drops the sha-384 fingerprints only
KeptBut384(line) == ~startswith(line, "a=fingerprint:sha-384")

\* the condition of the list comprehension of _patched_send_sdp
Kept(line) ==
    /\ ~startswith(line, "a=fingerprint:sha-384")
    /\ ~startswith(line, "a=fingerprint:sha-512")

\* the list comprehension: the lines that are kept, in their order
RECURSIVE Filtered(_)
Filtered(lines) ==
    IF lines = << >> THEN << >>
    ELSE IF Kept(lines[1])
            THEN <<lines[1]>> \o Filtered(Tail(lines))
            ELSE Filtered(Tail(lines))

\* _patched_send_sdp: the SDP that reaches the original send function
patched_send_sdp(r, offer) ==
    rewrite_sdp_to_legacy(r, join(Filtered(splitlines(offer))) \o <<"CR", "LF">>)

\* an offer of the engine is about to be sent by one of the applications
InitSend ==
    /\ InitSession
    /\ variant = "monitor"
    /\ rewriter \in Rewriters
    /\ sdp \in Offers
    /\ rewritten = << >>
    /\ sentSdp = << >>
    /\ InitAddress
    /\ InitApp
    /\ InitMux
    /\ InitLoop
    /\ InitOrphans
    /\ InitLocks
    /\ InitImport
    /\ InitStore
    /\ InitCall

\* send_sdp_to_local_peer, patched, is called with the offer
SendOffer ==
    /\ sentSdp = << >>
    /\ sentSdp' = patched_send_sdp(rewriter, sdp)
    /\ UNCHANGED <<supVars, clockVars, connVars, taskVars, chanVars, histVars,
                   rewriter, sdp, rewritten, addrVars, appVars, muxVars, loopVars, orphanVars, lockVars, importVars, storeVars, callVars>>

NextSend == SendOffer

SpecSend == InitSend /\ [][NextSend]_vars

\* ---- min_connect_status.py: the offer on its way to the robot ----
\* setLocalDescription, get_answer_from_local_peer and send_sdp_to_local_peer
\* are all three replaced, and each replacement rewrites the offer.

\* the lines of a text that start with the prefix
LinesWith(t, prefix) ==
    {k \in 1..Len(splitlines(t)) : startswith(splitlines(t)[k], prefix)}

\* an offer with one data section: one m=application and one a=sctp-port line
OneDataSection(t) ==
    /\ Cardinality(LinesWith(t, "m=application")) = 1
    /\ Cardinality(LinesWith(t, "a=sctp-port")) = 1

InitLegacy == InitSend /\ rewriter = "min_connect_status"

\* _patched_setLocalDescription: the offer is rewritten and handed to the
\* engine
PatchedSetLocalDescription ==
    /\ rewritten = << >>
    /\ sentSdp = << >>
    /\ rewritten' = <<rewrite_sdp_to_legacy(rewriter, sdp)>>
    /\ UNCHANGED <<supVars, clockVars, connVars, taskVars, chanVars, histVars,
                   rewriter, sdp, sentSdp, addrVars, appVars, muxVars, loopVars, orphanVars,
                   lockVars, importVars, storeVars, callVars>>

\* _patched_get_answer_from_local_peer: pc.localDescription.sdp, which is
\* the text the engine was given or the engine's own rendering of it, is
\* rewritten and passed to _patched_send_sdp, which filters and rewrites it
PatchedGetAnswer(rendered) ==
    /\ rewritten # << >>
    /\ sentSdp = << >>
    /\ LET localSdp == IF rendered THEN sdp ELSE rewritten[1]
       IN  sentSdp' = patched_send_sdp(rewriter, rewrite_sdp_to_legacy(rewriter, localSdp))
    /\ UNCHANGED <<supVars, clockVars, connVars, taskVars, chanVars, histVars,
                   rewriter, sdp, rewritten, addrVars, appVars, muxVars, loopVars, orphanVars,
                   lockVars, importVars, storeVars, callVars>>

NextLegacy ==
    \/ PatchedSetLocalDescription
    \/ \E rendered \in BOOLEAN : PatchedGetAnswer(rendered)

SpecLegacy == InitLegacy /\ [][NextLegacy]_vars

\* ------------------------------------------- sit-stand.py: bounded connect
\* main() tries to connect max_attempts times in a for loop, one second
\* apart, then either talks to the robot or calls sys.exit(1).

max_attempts == 3
MaxPublished == 2      \* requests sent after connecting that are counted
PollLimit == 2         \* seconds the peer state is polled after connect()

InitSitStand ==
    /\ InitSession
    /\ variant = "monitor"
    /\ InitText
    /\ InitAddress
    /\ InitApp
    /\ InitMux
    /\ InitLoop
    /\ InitOrphans
    /\ InitLocks
    /\ InitImport
    /\ InitStore
    /\ InitCall

\* _safe_disconnect: disconnect() only when isConnected is set
SafeDisconnect ==
    IF isConnected
       THEN DisconnectEffect
       ELSE UNCHANGED <<connVars, chanVars>>

\* a loop whose else clause is missing: the exhausted loop sleeps like the
\* others and nothing ends the process
SitFailNoExit(err) ==
    /\ last_error' = err
    /\ SafeDisconnect
    /\ connection_error_detected' = FALSE
    /\ DropTask
    /\ abandoned' = IF err = "TimeoutError" /\ ~TaskDone THEN abandoned + 1 ELSE abandoned
    /\ elapsed' = 0
    /\ sup' = "backoff"
    /\ UNCHANGED <<variant, history, retry_count, consecutive_fast_failures, reconnect_delay,
                   sleepLeft, shutdown_requested, failure, msgAge, sportAge, kaAge,
                   histVars, textVars, addrVars, attempt, published, exit_code, muxVars, loopVars, lockVars, importVars, storeVars, callVars>>

\* an except clause stores the error, the finally block disconnects and
\* clears the flag; then the loop sleeps, or it is exhausted and its else
\* clause calls sys.exit(1)
SitFail(err) ==
    /\ last_error' = err
    /\ SafeDisconnect
    /\ connection_error_detected' = FALSE
    /\ DropTask
    /\ abandoned' = IF err = "TimeoutError" /\ ~TaskDone THEN abandoned + 1 ELSE abandoned
    /\ elapsed' = 0
    /\ IF attempt < max_attempts
          THEN sup' = "backoff" /\ exit_code' = exit_code
          ELSE sup' = "stopped" /\ exit_code' = "1"
    /\ UNCHANGED <<variant, history, retry_count, consecutive_fast_failures, reconnect_delay,
                   sleepLeft, shutdown_requested, failure, msgAge, sportAge, kaAge,
                   histVars, textVars, addrVars, attempt, published, muxVars, loopVars, lockVars, importVars, storeVars, callVars>>

\* for attempt in range(1, max_attempts + 1): a new connection object and
\* connect() started as a task
SitBeginAttempt ==
    /\ sup = "start"
    /\ attempt < max_attempts
    /\ exit_code = "running"
    /\ attempt' = attempt + 1
    /\ NewConnection
    /\ connection_error_detected' = FALSE
    /\ connStage' = "created"
    /\ answer' = "unset"
    /\ exc' = "none"
    /\ elapsed' = 0
    /\ sup' = "connecting"
    /\ UNCHANGED <<variant, history, retry_count, consecutive_fast_failures, reconnect_delay,
                   sleepLeft, shutdown_requested, failure, msgAge, sportAge, kaAge,
                   histVars, textVars, addrVars, last_error, published, exit_code, muxVars, loopVars, orphanVars, lockVars, importVars, storeVars, callVars>>

\* connect_with_monitoring sees the flag, cancels the task and raises
SitConnectFault ==
    /\ sup = "connecting"
    /\ ~TaskDone
    /\ connection_error_detected
    /\ SitFail("RuntimeError")

\* asyncio.wait_for(connect_with_monitoring(), timeout=60.0) expires
SitConnectTimeout ==
    /\ sup = "connecting"
    /\ ~TaskDone
    /\ connStage # "created"
    /\ SitFail("TimeoutError")

\* connect() is over: it raised, the flag is set, there is no peer, or the
\* polling of the peer state starts
SitConnectDone ==
    /\ sup = "connecting"
    /\ TaskDone
    /\ IF connStage = "raised"
          THEN SitFail(exc)
       ELSE IF connection_error_detected \/ pc = "None"
          THEN SitFail("RuntimeError")
          ELSE /\ sup' = "postconnect"
               /\ elapsed' = 0
               /\ DropTask
               /\ UNCHANGED <<variant, history, retry_count, consecutive_fast_failures,
                              reconnect_delay, sleepLeft, connection_error_detected,
                              shutdown_requested, failure, msgAge, sportAge, kaAge,
                              connVars, chanVars, histVars, textVars, addrVars, appVars, muxVars, loopVars, orphanVars, lockVars, importVars, storeVars, callVars>>

\* one round of the polling loop: the flag, the peer state, the two seconds
SitPoll ==
    /\ sup = "postconnect"
    /\ IF connection_error_detected
          THEN SitFail("RuntimeError")
       ELSE IF connectionState = "connected" /\ remoteDescription
          THEN /\ last_error' = "None"
               /\ sup' = "alive"
               /\ UNCHANGED <<variant, history, retry_count, consecutive_fast_failures,
                              reconnect_delay, sleepLeft, connection_error_detected,
                              shutdown_requested, failure, clockVars, connVars, taskVars,
                              chanVars, histVars, textVars, addrVars, attempt, published,
                              exit_code, muxVars, loopVars, orphanVars, lockVars, importVars, storeVars, callVars>>
       ELSE IF connectionState = "connected" \/ connectionState \in BadStates
                  \/ elapsed >= PollLimit
          THEN SitFail("RuntimeError")
          ELSE /\ elapsed' = elapsed + 1
               /\ UNCHANGED <<supVars, msgAge, sportAge, kaAge, connVars, taskVars,
                              chanVars, histVars, textVars, addrVars, appVars, muxVars, loopVars, orphanVars, lockVars, importVars, storeVars, callVars>>

\* await asyncio.sleep(1.0) between two attempts
SitSleep ==
    /\ sup = "backoff"
    /\ sup' = "start"
    /\ UNCHANGED <<variant, history, retry_count, consecutive_fast_failures, reconnect_delay,
                   sleepLeft, connection_error_detected, shutdown_requested, failure,
                   clockVars, connVars, taskVars, chanVars, histVars, textVars, addrVars, appVars, muxVars, loopVars, orphanVars, lockVars, importVars, storeVars, callVars>>

\* exception_handler of main(): the known fault of a background task
SitExceptionHandler ==
    /\ sup \in {"connecting", "postconnect", "alive", "backoff"}
    /\ ~connection_error_detected
    /\ connection_error_detected' = TRUE
    /\ UNCHANGED <<variant, history, sup, retry_count, consecutive_fast_failures,
                   reconnect_delay, sleepLeft, shutdown_requested, failure, clockVars,
                   connVars, taskVars, chanVars, histVars, textVars, addrVars, appVars, muxVars, loopVars, orphanVars, lockVars, importVars, storeVars, callVars>>

\* after the loop: get_robot_state subscribes, publish_request_new sends
\* StandUp or StandDown
SitPublish ==
    /\ sup = "alive"
    /\ published < MaxPublished
    /\ published' = published + 1
    /\ UNCHANGED <<supVars, clockVars, connVars, taskVars, chanVars, histVars, textVars,
                   addrVars, attempt, last_error, exit_code, muxVars, loopVars, orphanVars, lockVars, importVars, storeVars, callVars>>

\* the end of main(): _safe_disconnect and "Done."
SitDone ==
    /\ sup = "alive"
    /\ SafeDisconnect
    /\ sup' = "stopped"
    /\ exit_code' = "0"
    /\ UNCHANGED <<variant, history, retry_count, consecutive_fast_failures, reconnect_delay,
                   sleepLeft, connection_error_detected, shutdown_requested, failure,
                   clockVars, taskVars, histVars, textVars, addrVars, attempt, last_error,
                   published, muxVars, loopVars, orphanVars, lockVars, importVars, storeVars, callVars>>

NextSitStand ==
    \/ SitBeginAttempt
    \/ SitConnectFault
    \/ SitConnectTimeout
    \/ SitConnectDone
    \/ SitPoll
    \/ SitSleep
    \/ SitExceptionHandler
    \/ SitPublish
    \/ SitDone
    \/ AbandonedTaskEnds
    \/ ConnectCreatePeer
    \/ ConnectSignal
    \/ ConnectSetRemote
    \/ WaitOpenReturns
    \/ WaitOpenDeadline
    \/ OnConnectionStateChange
    \/ EngineStateChange
    \/ ChannelOpens
    \/ ChannelValidated
    \/ ChannelCloses

SpecSitStand == InitSitStand /\ [][NextSitStand]_vars

\* --------------------------------------------- message channel multiplexer
\* publishRequest, subscribe, unsubscribe and the read loop of the data
\* channel.  The applications only call them; what they do is described in
\* the design of the multiplexer.

sessionVars == <<supVars, clockVars, connVars, taskVars, chanVars, histVars, textVars,
                 addrVars, appVars, orphanVars, lockVars, importVars, storeVars, callVars>>
otherVars == <<sessionVars, loopVars>>

\* f without the entry of key k
Without(f, k) == [x \in DOMAIN f \ {k} |-> f[x]]

\* the sequence q without its element e
RECURSIVE Removed(_, _)
Removed(q, e) ==
    IF q = << >> THEN << >>
    ELSE IF Head(q) = e THEN Removed(Tail(q), e)
    ELSE <<Head(q)>> \o Removed(Tail(q), e)

Subscribed(t, c) == \E k \in 1..Len(subscriptions[t]) : subscriptions[t][k] = c

\* publishRequest: a fresh correlation id, a Pending Request with its
\* deadline, the request sent, the caller suspended
PublishRequest(t) ==
    /\ nextId < MaxRequests
    /\ nextId' = nextId + 1
    /\ pending' = [i \in DOMAIN pending \cup {nextId + 1} |->
                     IF i = nextId + 1 THEN [topic |-> t, left |-> RequestTimeout]
                                       ELSE pending[i]]
    /\ calls' = [calls EXCEPT ![nextId + 1] = [status |-> "waiting", topic |-> t, body |-> 0]]
    /\ UNCHANGED <<removals, inbound, responded, topicSeq, subscriptions, invoked, otherVars>>

\* the robot answers a request it has received: the response carries the
\* correlation id and, as its body, which request it answers
RobotResponds(i) ==
    /\ i \in 1..nextId
    /\ i \notin responded
    /\ responded' = responded \cup {i}
    /\ inbound' = Append(inbound, [topic |-> calls[i].topic, id |-> i, body |-> i])
    /\ UNCHANGED <<pending, calls, removals, nextId, topicSeq, subscriptions, invoked,
                   otherVars>>

\* the robot publishes a message of a topic, numbered in send order
RobotPublishes(t) ==
    /\ topicSeq < MaxMessages
    /\ topicSeq' = topicSeq + 1
    /\ inbound' = Append(inbound, [topic |-> t, id |-> 0, body |-> topicSeq + 1])
    /\ UNCHANGED <<pending, calls, removals, nextId, responded, subscriptions, invoked,
                   otherVars>>

\* a resolve that completes the call and leaves its Pending Request behind
ResolveKeeping(m) ==
    /\ calls' = [calls EXCEPT ![m.id] = [status |-> "response", topic |-> @.topic,
                                         body |-> m.body]]
    /\ UNCHANGED <<pending, removals>>

\* the response completes the call and removes its Pending Request
Resolve(m) ==
    /\ calls' = [calls EXCEPT ![m.id] = [status |-> "response", topic |-> @.topic,
                                         body |-> m.body]]
    /\ pending' = Without(pending, m.id)
    /\ removals' = [removals EXCEPT ![m.id] = @ + 1]

\* a match by topic: the oldest Pending Request of the topic of the message
MatchByTopic(m) ==
    IF \E i \in DOMAIN pending : pending[i].topic = m.topic /\ m.id # 0
       THEN {CHOOSE i \in DOMAIN pending :
                /\ pending[i].topic = m.topic
                /\ \A j \in DOMAIN pending : pending[j].topic = m.topic => i <= j}
       ELSE {}

\* the Pending Request a message resolves: the one of its correlation id
Match(m) == IF m.id \in DOMAIN pending THEN {m.id} ELSE {}

\* a fan-out that reaches the first subscriber of the topic only
FanOutFirst(m) ==
    invoked' = [c \in Callbacks |->
                   IF subscriptions[m.topic] # << >> /\ subscriptions[m.topic][1] = c
                      THEN Append(invoked[c], m.body) ELSE invoked[c]]

\* every current subscriber of the topic is called with the message
FanOut(m) ==
    invoked' = [c \in Callbacks |->
                   IF Subscribed(m.topic, c) THEN Append(invoked[c], m.body) ELSE invoked[c]]

\* the read loop takes the next message: it resolves the Pending Request it
\* matches, otherwise it goes to the subscribers of its topic
Inbound ==
    /\ inbound # << >>
    /\ inbound' = Tail(inbound)
    /\ LET m == Head(inbound)
       IN  IF Match(m) # {}
              THEN /\ Resolve([m EXCEPT !.id = CHOOSE i \in Match(m) : TRUE])
                   /\ UNCHANGED invoked
              ELSE /\ FanOut(m)
                   /\ UNCHANGED <<pending, calls, removals>>
    /\ UNCHANGED <<nextId, responded, topicSeq, subscriptions, otherVars>>

\* time passes for every request that has not reached its deadline
MuxTick ==
    /\ DOMAIN pending # {}
    /\ \A i \in DOMAIN pending : pending[i].left > 0
    /\ pending' = [i \in DOMAIN pending |-> [pending[i] EXCEPT !.left = @ - 1]]
    /\ UNCHANGED <<calls, removals, nextId, inbound, responded, topicSeq, subscriptions,
                   invoked, otherVars>>

\* the deadline of a request elapses: the call fails with Timeout and its
\* Pending Request is removed
DeadlineElapses(i) ==
    /\ i \in DOMAIN pending
    /\ pending[i].left = 0
    /\ calls' = [calls EXCEPT ![i] = [status |-> "Timeout", topic |-> @.topic, body |-> 0]]
    /\ pending' = Without(pending, i)
    /\ removals' = [removals EXCEPT ![i] = @ + 1]
    /\ UNCHANGED <<nextId, inbound, responded, topicSeq, subscriptions, invoked, otherVars>>

\* subscribe(topic, cb): cb joins the end of the callback list of the topic
Subscribe(t, c) ==
    /\ ~Subscribed(t, c)
    /\ subscriptions' = [subscriptions EXCEPT ![t] = Append(@, c)]
    /\ UNCHANGED <<pending, calls, removals, nextId, inbound, responded, topicSeq, invoked,
                   otherVars>>

\* unsubscribe(topic, cb): cb leaves the callback list of the topic
Unsubscribe(t, c) ==
    /\ Subscribed(t, c)
    /\ subscriptions' = [subscriptions EXCEPT ![t] = Removed(@, c)]
    /\ UNCHANGED <<pending, calls, removals, nextId, inbound, responded, topicSeq, invoked,
                   otherVars>>

InitMuxOnly == Init /\ variant = "monitor"

\* requests and their responses, with one subscriber that never leaves
NextMux ==
    \/ \E t \in Topics : PublishRequest(t)
    \/ \E i \in Ids : RobotResponds(i)
    \/ Inbound
    \/ MuxTick
    \/ \E i \in Ids : DeadlineElapses(i)
    \/ Subscribe("T1", "cb1")

\* topic messages and subscribers that come and go
NextSub ==
    \/ \E t \in Topics : RobotPublishes(t)
    \/ Inbound
    \/ \E t \in Topics, c \in Callbacks : Subscribe(t, c)
    \/ \E t \in Topics, c \in Callbacks : Unsubscribe(t, c)

SpecSub == InitMuxOnly /\ [][NextSub]_vars

SpecMux == InitMuxOnly /\ [][NextMux]_vars

\* ---- the event loop the callbacks run on ----
\* The supervisor, the read loop of the channel and every subscriber callback
\* run on the one thread of the asyncio loop.  lowstate_callback and
\* sportmodestate_callback are plain functions that take memory_lock and
\* bandwidth_lock and write and flush the log file; lidar_callback_task is a
\* coroutine with no await in it.  Once started each runs to its end, and
\* how long that takes is for the disk, the locks and the point cloud to say.

\* the callbacks of the current subscribers of the topic, each scheduled on
\* its own at the time the message is read
Scheduled(m) ==
    [k \in 1..Len(subscriptions[m.topic]) |->
        [cb |-> subscriptions[m.topic][k], body |-> m.body, at |-> loopNow]]

\* the read loop takes the next message while no callback holds the thread
LoopRead ==
    /\ busyLeft = 0
    /\ inbound # << >>
    /\ inbound' = Tail(inbound)
    /\ ready' = ready \o Scheduled(Head(inbound))
    /\ UNCHANGED <<pending, calls, removals, nextId, responded, topicSeq, subscriptions,
                   invoked, loopNow, busyLeft, tickDue, tickLate, deliveryLate,
                   sessionVars>>

\* the next scheduled callback runs: it holds the thread for as long as its
\* locks, its file writes or its computation take
RunCallback(cost) ==
    /\ busyLeft = 0
    /\ ready # << >>
    /\ ready' = Tail(ready)
    /\ invoked' = [invoked EXCEPT ![Head(ready).cb] = Append(@, Head(ready).body)]
    /\ deliveryLate' = Max(deliveryLate, loopNow - Head(ready).at)
    /\ busyLeft' = cost
    /\ UNCHANGED <<pending, calls, removals, nextId, inbound, responded, topicSeq,
                   subscriptions, loopNow, tickDue, tickLate, sessionVars>>

\* time passes while a callback holds the thread: nothing else runs
LoopBlocked ==
    /\ busyLeft > 0
    /\ loopNow < MaxTime
    /\ loopNow' = loopNow + 1
    /\ busyLeft' = busyLeft - 1
    /\ UNCHANGED <<ready, tickDue, tickLate, deliveryLate, muxVars, sessionVars>>

\* time passes while the loop has nothing to run
LoopIdle ==
    /\ busyLeft = 0
    /\ ready = << >>
    /\ inbound = << >>
    /\ loopNow < tickDue
    /\ loopNow < MaxTime
    /\ loopNow' = loopNow + 1
    /\ UNCHANGED <<ready, busyLeft, tickDue, tickLate, deliveryLate, muxVars, sessionVars>>

\* the supervisor wakes from its sleep, checks the session and sleeps again
LoopTick ==
    /\ busyLeft = 0
    /\ loopNow >= tickDue
    /\ tickLate' = Max(tickLate, loopNow - tickDue)
    /\ tickDue' = loopNow + TickInterval
    /\ UNCHANGED <<loopNow, ready, busyLeft, deliveryLate, muxVars, sessionVars>>

NextLoop ==
    \/ \E t \in Topics : RobotPublishes(t)
    \/ Subscribe("T1", "cb1")
    \/ Subscribe("T2", "cb2")
    \/ LoopRead
    \/ \E cost \in 0..MaxBlock : RunCallback(cost)
    \/ LoopBlocked
    \/ LoopIdle
    \/ LoopTick

SpecLoop == InitMuxOnly /\ [][NextLoop]_vars

\* ---- connect() on the event loop ----
\* connect() is a coroutine of the same loop as the supervisor that waits
\* for it.  get_answer_from_local_peer calls send_sdp_to_local_peer as a
\* plain function: the HTTP exchange with the robot runs between two awaits
\* and holds the thread for as long as the robot takes to answer.

ConnectDeadline == 2   \* the timeout of wait_for, in the time units of the loop

\* the attempt begins at time 0, so that the deadline is ConnectDeadline
LoopBeginAttempt ==
    /\ loopNow = 0
    /\ busyLeft = 0
    /\ BeginAttempt

\* init_webrtc up to the offer, run when the thread is free
LoopCreatePeer ==
    /\ busyLeft = 0
    /\ ConnectCreatePeer

\* the signaling exchange and the checks on the answer: what ConnectSignal
\* does, and the time the exchange holds the thread
ExchangeSdp(cost) ==
    /\ busyLeft = 0
    /\ connStage = "offer"
    /\ sup \notin {"stopped", "crashed"}
    /\ IF pc = "None"
          THEN /\ exc' = "AttributeError"
               /\ connStage' = "raised"
               /\ busyLeft' = 0
               /\ UNCHANGED <<answer, sup>>
          ELSE \E a \in Answers :
                 /\ answer' = a
                 /\ exc' = InitWebrtcOutcome(a)
                 /\ connStage' = IF InitWebrtcOutcome(a) = "none" THEN "remote" ELSE "raised"
                 /\ sup' = IF LoopDies(InitWebrtcOutcome(a)) THEN "crashed" ELSE sup
                 /\ busyLeft' = cost
    /\ UNCHANGED <<variant, history, retry_count, consecutive_fast_failures, reconnect_delay,
                   sleepLeft, connection_error_detected, shutdown_requested, failure,
                   clockVars, connVars, chanVars, histVars, textVars, addrVars, appVars,
                   muxVars, loopNow, ready, tickDue, tickLate, deliveryLate, orphanVars, lockVars, importVars, storeVars, callVars>>

LoopSetRemote ==
    /\ busyLeft = 0
    /\ ConnectSetRemote

\* a background task reports its exception while connect() is under way
LoopExceptionHandler ==
    /\ busyLeft = 0
    /\ sup = "connecting"
    /\ ExceptionHandler

\* the poll of connect_with_monitoring wakes and finds the flag set
LoopConnectFault ==
    /\ busyLeft = 0
    /\ loopNow >= tickDue
    /\ SupConnectFault

\* the timer of wait_for runs once it is due and the thread is free
LoopConnectTimeout ==
    /\ busyLeft = 0
    /\ loopNow >= ConnectDeadline
    /\ SupConnectTimeout

\* time passes with nothing to run: no timer of the attempt is due
ConnectLoopIdle ==
    /\ sup = "connecting"
    /\ connStage \notin {"created", "offer"}
    /\ loopNow < ConnectDeadline
    /\ ~(connection_error_detected /\ loopNow >= tickDue)
    /\ LoopIdle

NextConnectLoop ==
    \/ LoopBeginAttempt
    \/ LoopCreatePeer
    \/ \E cost \in 0..MaxBlock : ExchangeSdp(cost)
    \/ LoopSetRemote
    \/ LoopExceptionHandler
    \/ LoopConnectFault
    \/ LoopConnectTimeout
    \/ ConnectLoopIdle
    \/ LoopBlocked
    \/ LoopTick

SpecConnectLoop == Init /\ [][NextConnectLoop]_vars

\* ---- the locks shared with the UI threads ----
\* Every with block of memory_lock, bandwidth_lock and frame_lock, as the
\* thread that enters it, the lock it takes and the statements it runs
\* inside: "copy" reads the shared value, "replace" stores or trims it,
\* "compute" touches no shared value, "emit" sends on the socket.

WithBlocks ==
    [write_lowstate_samples |->        \* sensor_monitor.py 312-319
        [thread |-> "loop", lock |-> "bandwidth_lock",
         ops |-> <<"replace", "replace", "replace">>],
     write_lowstate |->                \* sensor_monitor.py 324-332
        [thread |-> "loop", lock |-> "memory_lock", ops |-> <<"replace">>],
     write_error |->                   \* sensor_monitor.py 429-439
        [thread |-> "loop", lock |-> "memory_lock",
         ops |-> <<"replace", "replace", "replace">>],
     write_connection_state |->        \* sensor_monitor.py 460-461
        [thread |-> "loop", lock |-> "memory_lock", ops |-> <<"replace">>],
     get_latest_lowstate |->           \* sensor_monitor.py 481-482
        [thread |-> "ui", lock |-> "memory_lock", ops |-> <<"copy">>],
     get_bandwidth_kbps |->            \* sensor_monitor.py 503-509
        [thread |-> "ui", lock |-> "bandwidth_lock", ops |-> <<"copy", "compute", "copy">>],
     run_cli_monitor |->               \* sensor_monitor_cli.py 404-430
        [thread |-> "loop", lock |-> "memory_lock",
         ops |-> <<"compute", "replace", "copy", "copy", "replace">>],
     get_latest_states |->             \* sensor_monitor_cli.py 192-194
        [thread |-> "ui", lock |-> "memory_lock", ops |-> <<"copy", "copy">>],
     recv_frames |->                   \* video_stream/app.py 225-228
        [thread |-> "loop", lock |-> "frame_lock",
         ops |-> <<"replace", "replace", "replace">>],
     video_stream_thread |->           \* video_stream/app.py 354-360
        [thread |-> "ui", lock |-> "frame_lock",
         ops |-> IF latest_frame THEN <<"copy", "compute", "emit", "replace">>
                 ELSE <<"copy">>]]

Sections == DOMAIN WithBlocks

unlockedVars == <<supVars, clockVars, connVars, taskVars, chanVars, histVars, textVars,
                  addrVars, appVars, orphanVars, muxVars, loopVars, importVars, storeVars, callVars>>

\* the statements of a with block
Ops(name) == WithBlocks[name].ops

\* the statement a thread inside a with block is at
Statement(t) == Ops(at[t].section)[at[t].step]

\* a thread enters a with block: the lock is free and it takes it
Acquire(t, name) ==
    /\ at[t].section = "none"
    /\ WithBlocks[name].thread = t
    /\ held[WithBlocks[name].lock] = "none"
    /\ held' = [held EXCEPT ![WithBlocks[name].lock] = t]
    /\ at' = [at EXCEPT ![t] = [section |-> name, step |-> 1]]
    /\ latest_frame' = (latest_frame \/ name = "recv_frames")
    /\ UNCHANGED unlockedVars

\* the thread goes on to the next statement of its with block
NextStatement(t) ==
    /\ at[t].section # "none"
    /\ at[t].step < Len(Ops(at[t].section))
    /\ at' = [at EXCEPT ![t].step = @ + 1]
    /\ UNCHANGED <<held, latest_frame, unlockedVars>>

\* the thread leaves the with block and the lock is free again
Release(t) ==
    /\ at[t].section # "none"
    /\ at[t].step >= Len(Ops(at[t].section))
    /\ held' = [held EXCEPT ![WithBlocks[at[t].section].lock] = "none"]
    /\ at' = [at EXCEPT ![t] = [section |-> "none", step |-> 0]]
    /\ UNCHANGED <<latest_frame, unlockedVars>>

NextLocks ==
    \/ \E t \in Threads, name \in Sections : Acquire(t, name)
    \/ \E t \in Threads : NextStatement(t)
    \/ \E t \in Threads : Release(t)

SpecLocks == Init /\ [][NextLocks]_vars

\* ---- what importing the driver modules does to the engine ----
\* webrtc_driver.py and patches.py each define a subclass of aioice.Connection
\* with credentials drawn once for the class, bind aioice.Connection to it,
\* and replace the digest table of aiortc according to its version.
\* webrtc_driver.py imports aiortc after it has bound its class, patches.py
\* before.

unimportedVars == <<supVars, clockVars, connVars, taskVars, chanVars, histVars, textVars,
                    addrVars, appVars, orphanVars, muxVars, loopVars, lockVars, storeVars, callVars>>

Imported(m) == \E k \in 1..Len(imported) : imported[k] = m

\* if ver == Version("1.10.0"): ... elif ver >= Version("1.11.0"): ...
PatchedDigests(v) ==
    IF v = <<1, 10, 0>> THEN [a \in {"sha-256"} |-> "label"]
    ELSE IF VersionGe(v, <<1, 11, 0>>) THEN [a \in {"sha-256"} |-> "object"]
    ELSE X509_DIGEST_ALGORITHMS

\* the modules imported once m has been imported, aiortc with it if it was
\* not there yet
WithAiortc(m) ==
    IF Imported("aiortc") THEN Append(imported, m) ELSE imported \o <<"aiortc", m>>

\* the application imports aiortc itself: inside the engine the name
\* Connection is bound to what aioice.Connection names at that moment
ImportAiortc ==
    /\ ~Imported("aiortc")
    /\ imported' = Append(imported, "aiortc")
    /\ engine_Connection' = aioice_Connection
    /\ UNCHANGED <<aiortc_version, X509_DIGEST_ALGORITHMS, aioice_Connection, engine_lookup,
                   created, unimportedVars>>

\* import of webrtc_driver.py: class Connection, aioice.Connection = Connection,
\* then import aiortc, then the digest table
ImportWebrtcDriver ==
    /\ ~Imported("webrtc_driver")
    /\ aioice_Connection' = "Connection"
    /\ engine_Connection' = IF Imported("aiortc") THEN engine_Connection ELSE "Connection"
    /\ imported' = WithAiortc("webrtc_driver")
    /\ X509_DIGEST_ALGORITHMS' = PatchedDigests(aiortc_version)
    /\ UNCHANGED <<aiortc_version, engine_lookup, created, unimportedVars>>

\* import of patches.py: import aiortc, then class SharedCredentialsConnection,
\* aioice.Connection = SharedCredentialsConnection, then the digest table
ImportPatches ==
    /\ ~Imported("patches")
    /\ engine_Connection' = IF Imported("aiortc") THEN engine_Connection ELSE aioice_Connection
    /\ aioice_Connection' = "SharedCredentialsConnection"
    /\ imported' = WithAiortc("patches")
    /\ X509_DIGEST_ALGORITHMS' = PatchedDigests(aiortc_version)
    /\ UNCHANGED <<aiortc_version, engine_lookup, created, unimportedVars>>

\* the credentials of a new object of a class: those of the class for the
\* two subclasses, whose __init__ overwrites what super().__init__ drew, and
\* fresh ones for the class of aioice itself
Credentials(class) ==
    IF class = "aioice" THEN <<"random", Len(created) + 1>> ELSE <<class, 0>>

\* init_webrtc creates Connection(ice_controlling=False) after
\* `from aioice import Connection`
CreateByDriver ==
    /\ Imported("webrtc_driver")
    /\ Len(created) < MaxObjects
    /\ created' = Append(created, Credentials(aioice_Connection))
    /\ UNCHANGED <<aiortc_version, X509_DIGEST_ALGORITHMS, imported, aioice_Connection,
                   engine_Connection, engine_lookup, unimportedVars>>

\* the engine creates the ICE connection of a peer
CreateByEngine ==
    /\ Imported("webrtc_driver") \/ Imported("patches")
    /\ Len(created) < MaxObjects
    /\ created' = Append(created,
                         Credentials(IF engine_lookup = "at_import" THEN engine_Connection
                                     ELSE aioice_Connection))
    /\ UNCHANGED <<aiortc_version, X509_DIGEST_ALGORITHMS, imported, aioice_Connection,
                   engine_Connection, engine_lookup, unimportedVars>>

NextImport ==
    \/ ImportAiortc
    \/ ImportWebrtcDriver
    \/ ImportPatches
    \/ CreateByDriver
    \/ CreateByEngine

\* any release of the engine may be installed; whether the engine looks the
\* class up when aiortc is imported or when it creates the object is the
\* engine's affair
InitAnyEngine ==
    /\ InitSession /\ InitText /\ InitAddress /\ InitApp /\ InitMux /\ InitLoop
    /\ InitOrphans /\ InitLocks /\ InitStore /\ InitCall
    /\ aiortc_version \in Versions
    /\ X509_DIGEST_ALGORITHMS = EngineDigests(aiortc_version)
    /\ imported = << >>
    /\ aioice_Connection = "aioice"
    /\ engine_Connection = "unbound"
    /\ engine_lookup \in {"at_import", "at_call"}
    /\ created = << >>

SpecImport == InitAnyEngine /\ [][NextImport]_vars

\* ---- the in-memory store of sensor_monitor.py ----
\* The writers run on the event-loop thread, each list operation under the
\* lock of its structure.  A bandwidth sample is followed as "fresh" (its
\* timestamp is within the last 2 s) or "stale"; the snapshots and errors
\* are followed as entries, their contents left out.

MAX_BANDWIDTH_SAMPLES == 50
MaxErrorsKept == 100

unstoredVars == <<supVars, clockVars, connVars, taskVars, chanVars, histVars, textVars,
                  addrVars, appVars, orphanVars, muxVars, loopVars, lockVars, importVars,
                  callVars>>

\* a list that is never cut
KeepAll(s, n) == s

\* s[-n:]
LastN(s, n) == IF Len(s) > n THEN SubSeq(s, Len(s) - n + 1, Len(s)) ELSE s

IsFresh(x) == x = "fresh"

\* with bandwidth_lock: append, drop what is older than 2 s, cut to the
\* last MAX_BANDWIDTH_SAMPLES
TrackBandwidth ==
    samples' = LastN(SelectSeq(Append(samples, "fresh"), IsFresh), MAX_BANDWIDTH_SAMPLES)

\* write_lowstate(data); a message whose fields cannot be read leaves the
\* snapshot as it was (except Exception: pass)
write_lowstate(readable) ==
    /\ TrackBandwidth
    /\ lowstate' = IF readable THEN <<"snapshot">> ELSE lowstate
    /\ UNCHANGED <<connection_state, sportmodestate, errors, error_count, unstoredVars>>

write_sportmodestate(readable) ==
    /\ TrackBandwidth
    /\ sportmodestate' = IF readable THEN <<"snapshot">> ELSE sportmodestate
    /\ UNCHANGED <<connection_state, lowstate, errors, error_count, unstoredVars>>

\* write_error(source, code, data): append, keep the last 100, count
write_error ==
    /\ errors' = LastN(Append(errors, "error"), MaxErrorsKept)
    /\ error_count' = Len(errors')
    /\ UNCHANGED <<connection_state, lowstate, sportmodestate, samples, unstoredVars>>

\* time passes between two writes: the oldest sample, or all of them,
\* become older than 2 s
TimePasses(k) ==
    /\ samples # << >>
    /\ k \in {1, Len(samples)}
    /\ samples[1] = "fresh"
    /\ samples' = [i \in 1..Len(samples) |-> IF i <= k THEN "stale" ELSE samples[i]]
    /\ UNCHANGED <<connection_state, lowstate, sportmodestate, errors, error_count,
                   unstoredVars>>

NextStore ==
    \/ \E readable \in BOOLEAN : write_lowstate(readable)
    \/ \E readable \in BOOLEAN : write_sportmodestate(readable)
    \/ write_error
    \/ \E k \in 1..MAX_BANDWIDTH_SAMPLES : TimePasses(k)

\* the store is that of sensor_monitor.py
InitMonitor == Init /\ variant = "monitor"

SpecStore == InitMonitor /\ [][NextStore]_vars

\* ---- get_robot_state of sit-stand.py ----
\* One call: subscribe sportmodestate_callback, sleep 0.3 s, wait up to 3 s
\* for the Event the callback sets, unsubscribe in the finally block of the
\* wait.  The topic is T1 and the callback cb1; cb2 is a subscriber of the
\* application that comes and goes between the calls.

uncalledVars == <<supVars, clockVars, connVars, taskVars, chanVars, histVars, textVars,
                  addrVars, appVars, orphanVars, loopVars, lockVars, importVars, storeVars>>
Heights == {"None", "low", "high"}

\* the part of the multiplexer a call leaves alone
MuxRest == <<pending, calls, removals, nextId, inbound, responded, topicSeq>>

\* subscribe(topic, cb) as the call makes it
SubscribeCallback == subscriptions' = [subscriptions EXCEPT !["T1"] = Append(@, "cb1")]

\* unsubscribe(topic, cb) in the finally block; what it raises is swallowed
UnsubscribeCallback == subscriptions' = [subscriptions EXCEPT !["T1"] = Removed(@, "cb1")]

\* the call begins: subscribe, then the 0.3 s sleep
GetRobotState ==
    /\ grs \in {"idle", "returned", "cancelled"}
    /\ ncalls < MaxStateCalls
    /\ ~Subscribed("T1", "cb1")
    /\ ncalls' = ncalls + 1
    /\ found' = subscriptions
    /\ state_received' = FALSE
    /\ body_height' = "None"
    /\ SubscribeCallback
    /\ grs' = "settle"
    /\ UNCHANGED <<MuxRest, invoked, uncalledVars>>

\* subscribe raises (the channel is gone): except Exception, return None
SubscribeRaises ==
    /\ grs \in {"idle", "returned", "cancelled"}
    /\ ncalls < MaxStateCalls
    /\ ncalls' = ncalls + 1
    /\ found' = subscriptions
    /\ state_received' = FALSE
    /\ body_height' = "None"
    /\ grs' = "returned"
    /\ UNCHANGED <<muxVars, uncalledVars>>

\* the read loop calls sportmodestate_callback with a message of the topic
StateArrives(h) ==
    /\ Subscribed("T1", "cb1")
    /\ Len(invoked["cb1"]) < MaxMessages
    /\ invoked' = [invoked EXCEPT !["cb1"] = Append(@, 0)]
    /\ body_height' = h
    /\ state_received' = (state_received \/ h # "None")
    /\ UNCHANGED <<MuxRest, subscriptions, grs, found, ncalls, uncalledVars>>

\* the 0.3 s sleep is over: the wait for the Event begins
Settled ==
    /\ grs = "settle"
    /\ grs' = "waiting"
    /\ UNCHANGED <<muxVars, state_received, body_height, found, ncalls, uncalledVars>>

\* CancelledError is raised in the 0.3 s sleep: the sleep is outside the try
\* whose finally block unsubscribes, and except Exception does not take it
CancelledInSleep ==
    /\ grs = "settle"
    /\ grs' = "cancelled"
    /\ UNCHANGED <<muxVars, state_received, body_height, found, ncalls, uncalledVars>>

\* leaving the wait: the finally block unsubscribes
LeaveWait(to) ==
    /\ grs = "waiting"
    /\ grs' = to
    /\ UnsubscribeCallback
    /\ UNCHANGED <<MuxRest, invoked, state_received, found, ncalls, uncalledVars>>

\* the Event is set: the wait returns
Received == state_received /\ LeaveWait("returned") /\ UNCHANGED body_height

\* 3 s have passed without the Event
WaitTimesOut == ~state_received /\ LeaveWait("returned") /\ body_height' = "None"

\* CancelledError is raised in the wait
CancelledInWait == LeaveWait("cancelled") /\ UNCHANGED body_height

\* the application subscribes and unsubscribes cb2 between the calls
OtherSubscriber(t) ==
    /\ grs \in {"idle", "returned", "cancelled"}
    /\ grs' = "idle"
    /\ subscriptions' = [subscriptions EXCEPT ![t] = IF Subscribed(t, "cb2")
                                                        THEN Removed(@, "cb2")
                                                        ELSE Append(@, "cb2")]
    /\ UNCHANGED <<MuxRest, invoked, state_received, body_height, found, ncalls,
                   uncalledVars>>

NextCall ==
    \/ GetRobotState
    \/ SubscribeRaises
    \/ \E h \in Heights : StateArrives(h)
    \/ Settled
    \/ CancelledInSleep
    \/ Received
    \/ WaitTimesOut
    \/ CancelledInWait
    \/ \E t \in Topics : OtherSubscriber(t)

SpecCall == InitMuxOnly /\ [][NextCall]_vars

TypeOK ==
    /\ grs \in {"idle", "settle", "waiting", "returned", "cancelled"}
    /\ state_received \in BOOLEAN
    /\ body_height \in {"None", "low", "high"}
    /\ ncalls \in 0..MaxStateCalls
    /\ connection_state \in {"Disconnected", "Connected"}
    /\ Len(lowstate) <= 1 /\ Len(sportmodestate) <= 1
    /\ aiortc_version \in Versions
    /\ DOMAIN X509_DIGEST_ALGORITHMS \subseteq {"sha-256", "sha-384", "sha-512"}
    /\ aioice_Connection \in {"aioice", "Connection", "SharedCredentialsConnection"}
    /\ engine_Connection \in {"unbound", "aioice", "Connection", "SharedCredentialsConnection"}
    /\ engine_lookup \in {"at_import", "at_call"}
    /\ Len(created) <= MaxObjects
    /\ held \in [Locks -> Threads \cup {"none"}]
    /\ \A t \in Threads : at[t].section \in Sections \cup {"none"}
    /\ latest_frame \in BOOLEAN
    /\ abandoned \in 0..Max(MaxAbandoned, max_attempts)
    /\ loopNow \in 0..MaxTime
    /\ busyLeft \in 0..MaxBlock
    /\ tickDue \in 0..(MaxTime + TickInterval)
    /\ tickLate \in 0..MaxTime
    /\ deliveryLate \in 0..MaxTime
    /\ \A k \in 1..Len(ready) : ready[k].cb \in Callbacks /\ ready[k].at \in 0..MaxTime
    /\ variant \in Variants
    /\ sup \in {"start", "connecting", "postconnect", "alive", "disconnecting",
                "closing", "backoff", "stopped", "crashed"}
    /\ retry_count \in 0..Max(MaxRetries, MaxFailures)
    /\ consecutive_fast_failures \in 0..Max(MaxRetries, MaxFailures)
    /\ reconnect_delay \in 0..MaxDelay
    /\ sleepLeft \in 0..MaxDelay
    /\ connection_error_detected \in BOOLEAN
    /\ shutdown_requested \in BOOLEAN
    /\ failure \in {"none", "SystemExit", "JSONDecodeError", "AttributeError",
                    "TimeoutError", "background", "timeout", "state", "lost"}
    /\ history \in Seq(Durations \X BOOLEAN)
    /\ elapsed \in 0..FastThreshold
    /\ msgAge \in {NoStamp} \cup 0..(StallLimit + 1)
    /\ sportAge \in {NoStamp} \cup 0..(StallLimit + 1)
    /\ kaAge \in 0..KeepaliveInterval
    /\ pc \in {"None", "peer"}
    /\ isConnected \in BOOLEAN
    /\ connectionState \in PcStates
    /\ evPending \in BOOLEAN
    /\ remoteDescription \in BOOLEAN
    /\ connStage \in {"idle", "created", "offer", "remote", "dcwait", "returned", "raised"}
    /\ answer \in Answers \cup {"unset"}
    /\ data_channel_opened \in BOOLEAN
    /\ readyState \in {"connecting", "open", "closed"}
    /\ leaked \in 0..MaxLeaked
    /\ rewriter \in Rewriters
    /\ sdp \in Texts \cup Offers
    /\ rewritten \in Seq(Seq(STRING))
    /\ Len(rewritten) <= MaxPasses
    /\ sentSdp \in Seq(STRING)
    /\ sn \in Serials \cup {"None"}
    /\ ip \in Addresses \cup {"None"}
    /\ discovered_ip_sn_addresses \in Discoveries
    /\ attempt \in 0..(max_attempts + 1)
    /\ last_error \in STRING
    /\ published \in 0..MaxPublished
    /\ exit_code \in {"running", "0", "1"}
    /\ DOMAIN pending \subseteq Ids
    /\ \A i \in Ids : calls[i].status \in {"unsent", "waiting", "response", "Timeout"}
    /\ \A i \in Ids : removals[i] \in 0..2
    /\ nextId \in 0..MaxRequests
    /\ Len(inbound) <= MaxRequests + MaxMessages
    /\ responded \subseteq Ids
    /\ topicSeq \in 0..MaxMessages
    /\ \A t \in Topics : Len(subscriptions[t]) <= Cardinality(Callbacks)

\* ======================================================================
\* Properties
\* ======================================================================

\* C1: once the state-change event is handled, isConnected is false whenever
\* the peer's overall state is "disconnected", "failed" or "closed".
C1_Claim ==
    (pc = "peer" /\ ~evPending /\ connectionState \in BadStates) => ~isConnected

\* C2: isConnected is true only when the peer's overall state is "connected"
\* and the data channel has completed its open-validation handshake; it is
\* never true while connect() still waits for the data channel.
C2_Claim ==
    isConnected => /\ connectionState = "connected"
                   /\ data_channel_opened
                   /\ connStage # "dcwait"

\* C3: the outcome of connect() for the answer "reject" differs from its
\* outcome for a missing answer and from its outcome for a malformed answer.
C3_Claim ==
    (connStage = "raised" /\ answer = "reject") =>
        /\ exc # InitWebrtcOutcome("none")
        /\ exc # InitWebrtcOutcome("malformed")

\* C4: the long-running supervisor stops retrying only when shutdown is
\* requested: whatever made an attempt fail, its loop is still running.
C4_Claim ==
    sup \in {"stopped", "crashed"} => shutdown_requested

\* the peers created so far that nobody has closed
Unclosed == leaked + (IF PeerUnclosed THEN 1 ELSE 0)

\* C5: at most one peer created by the supervisor is unclosed at any time.
C5_Claim ==
    Unclosed <= 1

\* the durations of the failed attempts so far
Lasted(h) == [i \in 1..Len(h) |-> h[i][1]]

\* the step in which the except-branch counts one more failure
CountsFailure == retry_count' > retry_count

\* C6: after failures that lasted 3 s, 2 s and 2 s the delays are strictly
\* increasing, and the failure of the session that then stayed alive 20 s
\* gets the delay of a first failure again.
C6_Claim ==
    [][(CountsFailure /\ variant \in {"monitor", "lidar2"}) =>
          /\ Lasted(history') \in {<<3, 2>>, <<3, 2, 2>>} =>
                reconnect_delay' > reconnect_delay
          /\ (Lasted(history') = <<3, 2, 2, 20>> /\ history'[4][2]) =>
                reconnect_delay' = ReconnectDelay(variant, 1, 0)]_vars

\* length of the latest unbroken run of failures that lasted less than 10 s
RECURSIVE FastRun(_)
FastRun(h) ==
    IF h = << >> \/ h[Len(h)][1] >= FastThreshold THEN 0
    ELSE 1 + FastRun(SubSeq(h, 1, Len(h) - 1))

\* C7: after every failure the delay is min(30, 10 * consecutive_fast) when
\* consecutive_fast > 3 and min(30, 2 * attempts) otherwise, attempts being
\* the number of failures so far.
C7_Claim ==
    [][CountsFailure =>
          reconnect_delay' = IF FastRun(history') > 3
                                THEN Min(30, 10 * FastRun(history'))
                                ELSE Min(30, 2 * Len(history'))]_vars

\* C8: a session that has been alive for more than 10 s without any message
\* of a subscribed topic is not left alive by the next check of the loop.
C8_Claim ==
    ~(/\ sup = "alive"
      /\ variant # "lidar"
      /\ msgAge = NoStamp
      /\ sportAge = NoStamp
      /\ kaAge > StallLimit)

\* C9: the monitoring tick that finds the peer's overall state or its ICE
\* state "closed", "failed" or "disconnected" ends the session.
C9_Claim ==
    [][(/\ MonitorTick
        /\ pc = "peer"
        /\ ~evPending
        /\ connectionState \in BadStates \/ iceConnectionState \in BadStates)
          => sup' # "alive"]_vars

\* the steps in which the supervisor reads the fault flag
ReadsFaultFlag ==
    \/ SupConnectFault
    \/ SupConnectDone /\ connStage = "returned"
    \/ PostConnectPoll
    \/ MonitorTick

\* C10: when the fault flag is set, the step of the supervisor that reads it
\* gives the session up and enters the failure handling (disconnect, sleep,
\* next attempt) rather than ending the loop, and every attempt begins with
\* the flag clear.
C10_Theorem ==
    [][/\ (variant = "monitor" /\ connection_error_detected /\ ReadsFaultFlag)
            => sup' = "disconnecting"
       /\ (variant = "monitor" /\ BeginAttempt) => ~connection_error_detected']_vars

\* the session was given up for the fault, its disconnect is over, the flag
\* is clear again and the supervisor sleeps before the next attempt
C10_Witness ==
    /\ variant = "monitor"
    /\ sup = "backoff"
    /\ failure = "background"
    /\ ~connection_error_detected

\* C11: the supervisor comes back to the top of its retry loop only out of a
\* backoff sleep of non-zero length, never straight from a failed connect or
\* a lost session.
C11_Claim ==
    [][(sup' = "start" /\ sup # "start") => (sup = "backoff" /\ sleepLeft > 0)]_vars

C13_Claim ==
    /\ []((variant = "lidar2" /\ sup = "stopped") => ~PeerUnclosed)
    /\ [][(variant = "lidar2" /\ shutdown_requested) => ~BeginAttempt]_vars

\* C14: connect() has returned normally only if the data channel completed
\* its open handshake.
C14_Claim ==
    connStage = "returned" => data_channel_opened

\* the steps in which the supervisor publishes on the data channel: the
\* initial keepalive of a session and a periodic keepalive that went out
Publishes ==
    \/ PostConnectPoll /\ sup' = "alive"
    \/ SupConnectDone /\ sup' = "alive"
    \/ MonitorTick /\ variant # "lidar" /\ sup' = "alive" /\ kaAge' = 0

\* C15: nothing is published on the data channel of a session unless the
\* channel has reached the open state.
C15_Claim ==
    [][Publishes => readyState = "open"]_vars

\* the next tick finds the keepalive due and nothing else wrong
KeepaliveDueOnly ==
    /\ sup = "alive"
    /\ variant # "lidar"
    /\ kaAge + 1 >= KaInterval
    /\ ~ConnectionLost(Advance(msgAge, 1, StallLimit + 1),
                       Advance(sportAge, 1, StallLimit + 1))
    /\ ~LoopExits
    /\ ~LoopBreaks

\* C16: when the keepalive is due and its send raises, the tick leaves the
\* session alive with the keepalive still due, so that it is tried again at
\* the next tick; and a tick ends a session only for a lost connection, the
\* fault flag or shutdown, never for the keepalive.
C16_Theorem ==
    /\ [](KeepaliveDueOnly =>
             ENABLED (MonitorTick /\ sup' = "alive" /\ kaAge' = KaInterval))
    /\ [][(MonitorTick /\ sup' # "alive") =>
             \/ ConnectionLost(msgAge', sportAge')
             \/ LoopExits
             \/ LoopBreaks]_vars

\* a session still alive after a keepalive that was due did not go out
C16_Witness ==
    /\ variant = "lidar2"
    /\ sup = "alive"
    /\ kaAge = KaInterval
    /\ connectionState = "connected"

\* C17: disconnect() called in any state of the session leaves pc = None and
\* isConnected false without raising anything into the connect() under way,
\* and a disconnect() of a session that is already disconnected changes
\* nothing at all.
C17_Theorem ==
    [][CallDisconnect =>
          /\ pc' = "None"
          /\ ~isConnected'
          /\ ~PeerUnclosed'
          /\ exc' = exc
          /\ (pc = "None" /\ ~isConnected) => UNCHANGED vars]_vars

\* disconnect() was called in the middle of the negotiation of a connect()
C17_Witness ==
    /\ connStage = "dcwait"
    /\ pc = "None"
    /\ connectionState = "closed"
    /\ ~isConnected

\* C18: reconnect() leaves the session disconnected (no peer, isConnected
\* false, data channel closed) at the point where its connect() starts, which
\* is where a connect() called on a disconnected session starts, and no peer
\* is ever created while the earlier one is still referenced.
C18_Theorem ==
    [][/\ CallReconnect =>
            /\ pc' = "None" /\ ~isConnected' /\ ~PeerUnclosed'
            /\ (pc = "peer" => (readyState' = "closed" /\ ~data_channel_opened'))
            /\ answer' = "unset"
            /\ \/ connStage' = "created" /\ exc' = "none"
               \/ connStage' = "raised" /\ exc' = "ValueError"
       /\ ConnectCreatePeer => pc = "None"]_vars

\* the session that was connected has been closed and a fresh connect() is
\* about to create its peer
C18_Witness ==
    /\ connStage = "created"
    /\ pc = "None"
    /\ connectionState = "closed"
    /\ readyState = "closed"
    /\ ~isConnected

\* C19: in sensor_monitor.py and lidar2/app.py, rewriting the result of the
\* rewrite gives that result again, for every text: with or without
\* m=application, a=sctp-port and a=sctpmap lines, whatever ends its lines.
C19_Theorem ==
    KeepsPort(rewriter) =>
        \A i \in 1..Len(rewritten) : rewritten[i] = rewritten[1]

\* a text with an m=application line, no sctpmap and a bare LF was rewritten
\* twice, and the rewrite changed it
C19_Witness ==
    /\ rewriter = "sensor_monitor"
    /\ Len(rewritten) = 2
    /\ SawMApplication(splitlines(sdp))
    /\ ~SawSctpmap(splitlines(sdp))
    /\ \E k \in 1..Len(sdp) : sdp[k] = "LF"
    /\ rewritten[1] # sdp

\* the line of the offer announces a port: m=application, blank, port
AnnouncesPort(line) == startswith(line, "m=application") /\ Len(split(line)) > 1

\* C20: in every copy of the rewrite, each m=application line of the offer
\* that announces a port p comes out as an m=application line announcing p.
C20_Claim ==
    rewritten # << >> =>
        LET in == splitlines(sdp)
            out == splitlines(rewritten[1])
        IN  \A k \in 1..Len(in) :
                AnnouncesPort(in[k]) =>
                    /\ AnnouncesPort(out[k])
                    /\ split(out[k])[2] = split(in[k])[2]

IsFingerprint(line) ==
    \/ startswith(line, "a=fingerprint:sha-256")
    \/ startswith(line, "a=fingerprint:sha-384")
    \/ startswith(line, "a=fingerprint:sha-512")

\* C21: every fingerprint line of the offer that is sentSdp is a sha-256 one,
\* whichever of the engine's fingerprints the offer had, and the sha-256
\* fingerprints of the offer are all sent.
C21_Theorem ==
    sentSdp # << >> =>
        LET out == splitlines(sentSdp)
            in == splitlines(sdp)
        IN  /\ \A k \in 1..Len(out) :
                  IsFingerprint(out[k]) => startswith(out[k], "a=fingerprint:sha-256")
            /\ Cardinality({k \in 1..Len(out) : IsFingerprint(out[k])})
                  = Cardinality({k \in 1..Len(in) :
                                    startswith(in[k], "a=fingerprint:sha-256")})

\* an offer with fingerprints of all three algorithms was sent by lidar2
C21_Witness ==
    /\ rewriter = "lidar2"
    /\ sentSdp # << >>
    /\ \A a \in {"a=fingerprint:sha-256", "a=fingerprint:sha-384", "a=fingerprint:sha-512"} :
           \E k \in 1..Len(sdp) : sdp[k] = a
    /\ \E k \in 1..Len(sentSdp) : sentSdp[k] = "a=fingerprint:sha-256"

\* C22: a connect() with a serial number and no address raises the lookup
\* error, creating no peer and leaving isConnected false and the address
\* unset, exactly when the discovery is empty or lacks the serial number;
\* otherwise it goes on to negotiate with the address found for the serial.
C22_Theorem ==
    [][((CallConnect \/ CallReconnect) /\ ip = "None" /\ sn # "None") =>
          LET d == discovered_ip_sn_addresses'
          IN  IF d = << >> \/ sn \notin DOMAIN d
                 THEN /\ connStage' = "raised" /\ exc' = "ValueError"
                      /\ pc' = "None" /\ ~isConnected' /\ ip' = "None"
                 ELSE /\ connStage' = "created" /\ exc' = "none"
                      /\ ip' = d[sn]]_vars

\* the discovery found another robot only, and connect() raised
C22_Witness ==
    /\ sn = "S1" /\ ip = "None"
    /\ discovered_ip_sn_addresses # << >>
    /\ "S1" \notin DOMAIN discovered_ip_sn_addresses
    /\ connStage = "raised" /\ exc = "ValueError"
    /\ pc = "None"

\* C23: the bounded connect of sit-stand.py makes at most max_attempts
\* attempts; a further attempt begins only after the one before it failed,
\* so the first success ends the loop; when the last attempt has failed the
\* process ends with status 1; nothing is sent to the robot unless an
\* attempt succeeded.
C23_Theorem ==
    /\ [](/\ attempt <= max_attempts
          /\ published > 0 => last_error = "None"
          /\ (exit_code = "1" \/ sup = "crashed") => published = 0
          /\ exit_code = "1" => (attempt = max_attempts /\ last_error # "None")
          /\ (attempt = max_attempts /\ last_error # "None"
                 /\ sup \notin {"connecting", "postconnect", "crashed"})
               => (sup = "stopped" /\ exit_code = "1"))
    /\ [][attempt' # attempt =>
             /\ attempt' = attempt + 1
             /\ published = 0
             /\ attempt > 0 => last_error # "None"]_vars

\* three attempts failed and the process ended with status 1
C23_Witness ==
    /\ attempt = max_attempts
    /\ sup = "stopped"
    /\ exit_code = "1"
    /\ last_error = "TimeoutError"
    /\ published = 0

\* C24: in monitor and lidar2, when an attempt fails without its session
\* ever coming alive, the delay chosen for it is not smaller than the delay
\* chosen after the failure before it.
C24_Claim ==
    [][(/\ CountsFailure
        /\ variant \in {"monitor", "lidar2"}
        /\ history # << >>
        /\ ~history'[Len(history')][2])
          => reconnect_delay' >= reconnect_delay]_vars

\* C25: the Pending Request of a call is removed exactly once: it exists
\* exactly while the call is waiting, a call that has its response or its
\* Timeout has had one removal and keeps that outcome for good, also when
\* the response is in the channel at the moment the deadline elapses.
C25_Theorem ==
    /\ [](\A i \in Ids :
            /\ removals[i] <= 1
            /\ i \in DOMAIN pending <=> calls[i].status = "waiting"
            /\ calls[i].status \in {"response", "Timeout"} => removals[i] = 1)
    /\ [][\A i \in Ids :
             calls[i].status \in {"response", "Timeout"} => calls'[i] = calls[i]]_vars

\* a call timed out while its response was already in the channel
C25_Witness ==
    \E i \in Ids :
        /\ calls[i].status = "Timeout"
        /\ removals[i] = 1
        /\ \E k \in 1..Len(inbound) : inbound[k].id = i

\* C26: a call that has a response has the response that answers it,
\* whatever the order in which the responses of outstanding calls arrive.
C26_Theorem ==
    \A i \in Ids : calls[i].status = "response" => calls[i].body = i

\* two calls on one topic were outstanding and the later one was answered
\* first
C26_Witness ==
    /\ calls[1].status = "waiting"
    /\ calls[2].status = "response"
    /\ calls[1].topic = calls[2].topic

\* C27: a message read from the channel invokes each callback subscribed to
\* its topic once and no other callback; a callback sees the messages in the
\* order the robot sent them, none twice; a callback that is subscribed to
\* nothing is not invoked.
C27_Theorem ==
    /\ [](\A c \in Callbacks : \A k, l \in 1..Len(invoked[c]) :
             k < l => invoked[c][k] < invoked[c][l])
    /\ [][Inbound =>
             (\A c \in Callbacks :
                 invoked'[c] = IF Subscribed(Head(inbound).topic, c)
                                  THEN Append(invoked[c], Head(inbound).body)
                                  ELSE invoked[c])]_vars
    /\ [][\A d \in Callbacks :
             (\A t \in Topics : ~Subscribed(t, d)) => invoked'[d] = invoked[d]]_vars

\* cb1 was invoked with the first message of T1, unsubscribed, and was not
\* invoked with the second, which cb2 got
C27_Witness ==
    /\ invoked["cb1"] = <<1>>
    /\ invoked["cb2"] = <<1, 2>>
    /\ \A t \in Topics : ~Subscribed(t, "cb1")
    /\ subscriptions["T1"] = <<"cb2">>
    /\ inbound = << >>

\* C28: a callback that is slow or blocks delays neither the supervisor's
\* tick nor the callback of another subscriber: the tick runs when it is due
\* and a scheduled callback runs at the time it was scheduled.
C28_Claim ==
    /\ tickLate = 0
    /\ deliveryLate = 0

\* C29: a check of the loop finds the session stalled only when the session
\* itself has lasted the 10 s of silence: the time since the attempt began
\* (monitor, lidar2) or since the session was set up (cli) has reached the
\* limit whenever the message age read at the check is beyond it.
C29_Claim ==
    [][(MonitorTick /\ Stalled(msgAge', sportAge')) => elapsed >= StallLimit]_vars

\* C30: no conn.connect() task of an attempt given up is running while the
\* supervisor sleeps its backoff or runs its next attempt.
C30_Claim ==
    sup \in {"backoff", "connecting"} => abandoned = 0

\* C31: while connect() is under way the timers of the supervisor run when
\* they are due: the poll that checks the fault flag wakes at the end of its
\* sleep, and the connect timeout takes effect at its deadline.
C31_Claim ==
    [][/\ (LoopTick /\ sup = "connecting") => loopNow = tickDue
       /\ LoopConnectTimeout => loopNow = ConnectDeadline]_vars

\* C32: a thread that holds memory_lock, bandwidth_lock or frame_lock is at a
\* statement that copies or replaces the shared value (or computes on what
\* it copied): never at an await, a sleep or an emit on a socket.
C32_Claim ==
    \A t \in Threads :
        at[t].section # "none" => Statement(t) \notin {"await", "sleep", "emit"}

\* C33: the remote description is applied only by the step that follows the
\* signaling exchange, on a peer that made its offer, with an answer that is
\* neither missing nor a rejection; the wait for the data channel begins
\* only with the remote description applied; and after a missing or
\* rejected answer connect() sets no remote description and waits for no
\* channel.
C33_Theorem ==
    /\ [][(remoteDescription' /\ ~remoteDescription)
            => (ConnectSetRemote /\ connStage = "remote" /\ pc = "peer" /\ answer = "ok")]_vars
    /\ [][(connStage' = "dcwait" /\ connStage # "dcwait") => remoteDescription']_vars
    /\ [](answer \in {"none", "reject"}
            => (~remoteDescription /\ connStage \notin {"remote", "dcwait", "returned"}))

\* connect() has applied the answer of the robot and waits for the channel
C33_Witness ==
    /\ connStage = "dcwait"
    /\ remoteDescription
    /\ answer = "ok"
    /\ pc = "peer"

\* C34: once a driver module is imported, under every release of the engine
\* from 1.10.0 on the digest table has the one entry sha-256.
C34_Claim ==
    ((Imported("webrtc_driver") \/ Imported("patches")) /\ VersionGe(aiortc_version, <<1, 10, 0>>))
        => DOMAIN X509_DIGEST_ALGORITHMS = {"sha-256"}

\* C39: all ICE connections created once a driver module is imported, by the
\* driver or by the engine, in whichever order the modules were imported,
\* have the same local username and password.
C39_Claim ==
    \A i, j \in 1..Len(created) : created[i] = created[j]

\* C35: from the moment the supervisor has detected a failure until the next
\* successful connect, memory_store['connection_state'] does not read
\* "Connected".
C35_Claim ==
    (variant = "monitor" /\ sup \in {"disconnecting", "backoff", "start", "connecting", "postconnect"})
        => connection_state # "Connected"

\* C36: after any sequence of sensor, error and bandwidth writes the store
\* holds at most one lowstate snapshot, at most one sport-mode snapshot, at
\* most 100 errors and at most MAX_BANDWIDTH_SAMPLES bandwidth samples.
C36_Theorem ==
    /\ Len(lowstate) <= 1
    /\ Len(sportmodestate) <= 1
    /\ Len(errors) <= 100
    /\ Len(samples) <= MAX_BANDWIDTH_SAMPLES

\* both lists have been cut: they are full and a write has just been made
C36_Witness ==
    /\ Len(errors) = 100 /\ error_count = 100
    /\ Len(samples) = MAX_BANDWIDTH_SAMPLES /\ samples[MAX_BANDWIDTH_SAMPLES] = "fresh"
    /\ Len(lowstate) = 1 /\ Len(sportmodestate) = 1

\* C37: on every exit path of get_robot_state (a message received, the 3 s
\* wait timed out, an exception, a cancellation in any of its waits) the
\* subscriber lists are as the call found them.
C37_Claim ==
    grs \in {"returned", "cancelled"} => subscriptions = found

\* C38: in min_connect_status.py the offer that reaches the robot, having
\* passed through the rewrite in setLocalDescription, get_answer_from_local_peer
\* and _patched_send_sdp, has exactly one a=sctpmap line for its
\* m=application section.
C38_Claim ==
    (sentSdp # << >> /\ OneDataSection(sdp))
        => Cardinality(LinesWith(sentSdp, "a=sctpmap")) = 1

====
